---- MODULE Spec2Model ----
(***************************************************************************)
(* Model of the MDA base class of gemseo (src/src/gemseo/mda/mda.py): the  *)
(* residual computation with its six scaling policies, the residual        *)
(* history and its run-start markers, the stop criterion and the warm      *)
(* start, driven by the fixed-point run loop of a solver.                  *)
(*                                                                         *)
(* Numbers.  Coupling values and residual components are small integers.   *)
(* Every norm of the code is a square root; the model keeps the SQUARE of  *)
(* each normed quantity as an exact fraction <<numerator, denominator>>    *)
(* in lowest terms, so normed_residual, tolerance and the entries of       *)
(* residual_history hold the squares of the code's floats.  Squaring is    *)
(* strictly increasing on non-negative numbers, hence every comparison     *)
(* (<=, maximum, = 0, = 1) has the same outcome as in the code.            *)
(*                                                                         *)
(* An optional value (None or a value) is a sequence of length 0 or 1.     *)
(***************************************************************************)
EXTENDS Integers, Sequences, FiniteSets, TLC

\* ------------------------------------------------------------------ bounds
\* Total number of iterations over the life of one solver instance.
MaxEvals == 3
\* Number of calls of one parallel batch.
MaxTasks == 3
\* Number of disciplines given to the construction of a solver.
MaxDisciplines == 2
\* The number of concurrent callers of generate_uid.
MaxCallers == 3
\* The number of calls of AlgoLib.execute.
MaxExecutes == 2

\* --------------------------------------------------------------- optionals
None == << >>
Some(v) == << v >>
IsNone(o) == Len(o) = 0
Get(o) == o[1]

\* --------------------------------------------------------------- fractions
RECURSIVE GCD(_, _)
GCD(a, b) == IF b = 0 THEN a ELSE GCD(b, a % b)

\* The fraction n/d (n >= 0, d > 0) in lowest terms.
Frac(n, d) == LET g == GCD(n, d) IN << n \div g, d \div g >>

FracLeq(a, b) == a[1] * b[2] <= b[1] * a[2]

FracAdd(a, b) == Frac(a[1] * b[2] + b[1] * a[2], a[2] * b[2])

FracMax(a, b) == IF FracLeq(a, b) THEN b ELSE a

RECURSIVE FracSum(_)
FracSum(s) == IF Len(s) = 0 THEN Frac(0, 1) ELSE FracAdd(Head(s), FracSum(Tail(s)))

\* max() of a non-empty list of fractions.
RECURSIVE FracMaxOf(_)
FracMaxOf(s) == IF Len(s) = 1 THEN s[1] ELSE FracMax(Head(s), FracMaxOf(Tail(s)))

\* ----------------------------------------------------------------- vectors
RECURSIVE SumSq(_)
SumSq(v) == IF Len(v) = 0 THEN 0 ELSE Head(v) * Head(v) + SumSq(Tail(v))

\* numpy.linalg.norm(v), squared.
norm(v) == SumSq(v)

\* v[from+1 .. to], the Python slice v[from:to].
Slice(v, from, to) == [i \in 1..(to - from) |-> v[from + i]]

RECURSIVE concatenate(_)
concatenate(arrays) ==
    IF Len(arrays) = 0 THEN << >> ELSE Head(arrays) \o concatenate(Tail(arrays))

\* The values of one component of a coupling array.
CouplingValues == {0, 1}

Vectors(n) == [1..n -> CouplingValues]

\* ------------------------------------------------------------------- names
RESIDUALS_NORM == "MDA residuals norm"

\* The variable names of the coupled system, in sorted order.
NameOrder == << "x", "y1", "y2" >>

Names == {"x", "y1", "y2", RESIDUALS_NORM}

\* sorted(S) for a set S of variable names.
Sorted(S) == SelectSeq(NameOrder, LAMBDA n : n \in S)

\* The residual scaling policies.
ResidualScaling ==
    {"no_scaling", "initial_residual_norm", "initial_subresidual_norm",
     "n_coupling_variables", "initial_residual_component",
     "scaled_initial_residual_component"}

\* The coupled systems: the strong couplings and the size of each array.
CouplingStructures ==
    { [strong |-> {"y1"}, size |-> [n \in {"x", "y1"} |-> IF n = "y1" THEN 2 ELSE 1]],
      [strong |-> {"y1", "y2"}, size |-> [n \in {"x", "y1", "y2"} |-> 1]] }

\* The squared tolerances a solver is configured with.
Tolerances == { <<0, 1>>, <<1, 2>> }

MaxMdaIters == {1, 2}

XValues == {0, 1}

VARIABLES
    \* configuration of the solver instance
    tolerance, max_mda_iter, warm_start, reset_history_each_run, scaling,
    coupling_structure, _input_couplings,
    \* state of the solver instance
    residual_history, _starting_indices, _scaling_data, _current_iter,
    normed_residual, local_data, cache_inputs, cache_outputs,
    \* the coupled disciplines: their last evaluation
    disc_last,
    \* the run
    status, pc, warned, evals_used,
    \* the parallel execution: its configuration, queues and results
    workers, inputs, exceptions_to_re_raise,
    queue_in, running, queue_out, ordered_outputs, got_n_outs, output, stop,
    ppc,
    \* the parallel linearization: the disciplines behind the workers, the
    \* attributes of the disciplines and of the workers, and its result
    disciplines, use_threading, MULTI_PROCESSING_START_METHOD,
    disc_attrs, worker_attrs, n_calls, n_calls_linearize, lin_outputs,
    \* the Jacobi solver inside a sampling loop: its disciplines and workers,
    \* the batch of one iteration, the log and the calls made downstream
    jacobi_disciplines, n_workers, snapshot, batch_queue, batch_running,
    batch_outputs, batch_raised, logged, downstream_n_calls, jpc,
    \* the construction of a solver: the declarations of its disciplines, the
    \* options of its linear solver, the warnings logged and the exception
    \* raised, and the couplings that the coupling structure computed
    mda_disciplines, not_array_names, linear_solver_options, warnings,
    raised, cpc, built_couplings,
    \* the total derivatives: the attributes of the solver that configure
    \* them, the last call made to the assembly, the point of the cached
    \* linearization of the disciplines, the stored LU factorization, the
    \* factorization used by the last solve, and the Jacobian of the solver
    lin_cache_tol_fact, use_lu_fact, residual_variables, assembly_call,
    cached_point, lu_fact, lu_used, jac, dpc,
    \* the acceleration of the Jacobi iterates: the method, the window of the
    \* last iterates, what the method returned and the next iterate
    acceleration, window, acc_result, next_iterate, apc,
    \* a DiscFromExe whose generate_uid is called concurrently: the way it
    \* names its folders, its lock and its counter, the position and the local
    \* value of each caller, the callers in the order in which they took the
    \* lock, and what each call returned
    folders_iter, lock, _counter, n_dirs, upc, local_value, lock_order,
    returned,
    \* the last call of plot_residual_history: what was asked, what was
    \* drawn and the exception raised
    figure,
    \* an algorithm library: its attributes, the arguments and the options of
    \* the running call of execute, the calls it made, what it raised and
    \* returned, its position and the number of calls of execute
    algo_name, internal_algo_name, problem, algo_arg, algo_options,
    algo_warnings, calls, algo_exception, algo_result, lpc, n_executes

config_vars ==
    << tolerance, max_mda_iter, warm_start, reset_history_each_run, scaling,
       coupling_structure, _input_couplings >>

mda_vars ==
    << residual_history, _starting_indices, _scaling_data, _current_iter,
       normed_residual, local_data, cache_inputs, cache_outputs,
       disc_last, status, pc, warned, evals_used >>

par_vars ==
    << workers, inputs, exceptions_to_re_raise,
       queue_in, running, queue_out, ordered_outputs, got_n_outs, output,
       stop, ppc >>

lin_vars ==
    << disciplines, use_threading, MULTI_PROCESSING_START_METHOD,
       disc_attrs, worker_attrs, n_calls, n_calls_linearize, lin_outputs >>

jacobi_vars ==
    << jacobi_disciplines, n_workers, snapshot, batch_queue, batch_running,
       batch_outputs, batch_raised, logged, downstream_n_calls, jpc >>

con_vars ==
    << mda_disciplines, not_array_names, linear_solver_options, warnings,
       raised, cpc, built_couplings >>

der_vars ==
    << lin_cache_tol_fact, use_lu_fact, residual_variables, assembly_call,
       cached_point, lu_fact, lu_used, jac, dpc >>

acc_vars == << acceleration, window, acc_result, next_iterate, apc >>

uid_vars ==
    << folders_iter, lock, _counter, n_dirs, upc, local_value, lock_order,
       returned >>

\* The state of the objects that are not solvers nor parallel executions.
plot_vars == << figure >>

lib_vars ==
    << algo_name, internal_algo_name, problem, algo_arg, algo_options,
       algo_warnings, calls, algo_exception, algo_result, lpc, n_executes >>

other_vars == << acc_vars, uid_vars, plot_vars, lib_vars >>

vars ==
    << config_vars, mda_vars, par_vars, lin_vars, jacobi_vars, con_vars,
       der_vars, other_vars >>

\* What a step of the solver, and a step of a batch, cannot reach.
outside_solver ==
    << par_vars, lin_vars, jacobi_vars, con_vars, der_vars, other_vars >>
outside_batch ==
    << config_vars, mda_vars, jacobi_vars, con_vars, der_vars, other_vars >>

\* ------------------------------------------------------ coupling structure
\* MDA.strong_couplings: the sorted names of the strong couplings.
strong_couplings == Sorted(coupling_structure.strong)

\* The names of the input grammar: every input of every discipline.
get_input_data_names == {"x"} \cup coupling_structure.strong

\* The names of the output grammar: every output of every discipline and the
\* residual norm.
get_output_data_names == coupling_structure.strong \cup {RESIDUALS_NORM}

\* MDA._compute_input_couplings: the strong couplings that are inputs.
ComputeInputCouplings(structure) ==
    Sorted(structure.strong \cap ({"x"} \cup structure.strong))

\* The default inputs of the disciplines: every array is zero.
default_inputs(name) == [i \in 1..coupling_structure.size[name] |-> 0]

\* MDODiscipline.get_outputs_by_name on the data ld: the arrays of the names.
get_outputs_by_name(ld, names) == [k \in 1..Len(names) |-> Get(ld[names[k]])]

\* MDA._current_input_couplings on the data ld.
_current_input_couplings(ld) ==
    LET input_couplings == get_outputs_by_name(ld, _input_couplings)
    IN  IF Len(input_couplings) = 0 THEN << >> ELSE concatenate(input_couplings)

\* The position of the array of names[k] in the concatenation of the arrays.
RECURSIVE Offset(_, _)
Offset(names, k) ==
    IF k = 1 THEN 0
    ELSE Offset(names, k - 1) + coupling_structure.size[names[k - 1]]

IndexOf(names, n) == CHOOSE k \in 1..Len(names) : names[k] = n

\* The data ld once the disciplines have written their outputs: the flat
\* vector out holds the new strong couplings in sorted order.
UpdateLocalData(ld, out) ==
    [n \in Names |->
        IF n \in coupling_structure.strong
        THEN LET k == IndexOf(strong_couplings, n)
                 o == Offset(strong_couplings, k)
             IN  Some(Slice(out, o, o + coupling_structure.size[n]))
        ELSE ld[n]]

\* ------------------------------------------------------ residual scaling
\* The (slice, initial norm) list of INITIAL_SUBRESIDUAL_NORM: one entry
\* <<start, stop, norm>> per input coupling, the slice being [start:stop].
RECURSIVE SubResidualData(_, _, _)
SubResidualData(outputs, index, residual) ==
    IF Len(outputs) = 0 THEN << >>
    ELSE LET last == index + Len(Head(outputs))
             initial_norm == norm(Slice(residual, index, last))
         IN  << << index, last,
                   initial_norm + (IF initial_norm = 0 THEN 1 ELSE 0) >> >>
             \o SubResidualData(Tail(outputs), last, residual)

\* The reference value a policy stores when _scaling_data is None.
InitialScalingData(residual, new_couplings, outputs) ==
    CASE scaling = "initial_residual_norm" ->
            << norm(residual) + (IF norm(residual) = 0 THEN 1 ELSE 0) >>
      [] scaling = "n_coupling_variables" ->
            << Len(new_couplings) >>
      [] scaling = "initial_subresidual_norm" ->
            SubResidualData(outputs, 0, residual)
      [] scaling \in {"initial_residual_component",
                      "scaled_initial_residual_component"} ->
            [i \in 1..Len(residual) |->
                residual[i] + (IF residual[i] = 0 THEN 1 ELSE 0)]

\* Variant: the reference value is captured again by every computation.
ScalingData_recaptured(residual, new_couplings, outputs) ==
    IF scaling = "no_scaling" THEN _scaling_data
    ELSE Some(InitialScalingData(residual, new_couplings, outputs))

\* _scaling_data after a residual computation: set only while it is None.
ScalingData(residual, new_couplings, outputs) ==
    IF scaling = "no_scaling" THEN _scaling_data
    ELSE IF IsNone(_scaling_data)
         THEN Some(InitialScalingData(residual, new_couplings, outputs))
         ELSE _scaling_data

\* The float nan: the quotient of a zero by a zero.
NaN == << 0, 0 >>

\* Whether the computation of the normed residual raises ValueError: the
\* maximum of an empty sequence, or of an empty array, is taken.
ResidualRaises(residual) ==
    /\ Len(residual) = 0
    /\ scaling \in {"initial_subresidual_norm", "initial_residual_component"}

\* The normed residual (squared) of a policy, given its reference data.
NormedResidual(residual, new_couplings, data) ==
    CASE scaling = "no_scaling" ->
            Frac(norm(residual), 1)
      [] scaling = "initial_residual_norm" ->
            Frac(norm(residual), Get(data)[1])
      [] scaling = "n_coupling_variables" ->
            IF Get(data)[1] = 0 THEN NaN
            ELSE Frac(norm(residual), Get(data)[1])
      [] scaling = "initial_subresidual_norm" ->
            FracMaxOf([k \in 1..Len(Get(data)) |->
                Frac(norm(Slice(residual, Get(data)[k][1], Get(data)[k][2])),
                     Get(data)[k][3])])
      [] scaling = "initial_residual_component" ->
            FracMaxOf([i \in 1..Len(residual) |->
                Frac(residual[i] * residual[i], Get(data)[i] * Get(data)[i])])
      [] scaling = "scaled_initial_residual_component" ->
            LET total == FracSum([i \in 1..Len(residual) |->
                    Frac(residual[i] * residual[i], Get(data)[i] * Get(data)[i])])
            IN  IF Len(new_couplings) = 0 THEN NaN
                ELSE Frac(total[1], total[2] * Len(new_couplings))

\* ------------------------------------------------------ _compute_residual
\* Variant: the history is cleared at the start of every run.
ResetsHistory_every_run == _current_iter = 0

\* Variant: the history is cleared once the first residual is stored.
ResetsHistory_late == _current_iter = 1 /\ reset_history_each_run

\* Whether the history is cleared on entry of a residual computation.
ResetsHistory == _current_iter = 0 /\ reset_history_each_run

\* Variant: the marker is taken after the residual is appended.
StartingIndices_after_append(indices, history) ==
    IF _current_iter = 0 THEN Append(indices, Len(history) + 1) ELSE indices

\* The run-start markers after a stored residual: the first stored residual
\* of a run records its own position in the history.
StartingIndices(indices, history) ==
    IF _current_iter = 0 THEN Append(indices, Len(history)) ELSE indices

\* MDA._compute_residual(current_couplings, new_couplings, store_it) on the
\* local data ld.
_compute_residual(current_couplings, new_couplings, store_it, ld) ==
    LET history == IF ResetsHistory THEN << >> ELSE residual_history
        indices == IF ResetsHistory THEN << >> ELSE _starting_indices
        residual == [i \in 1..Len(current_couplings) |->
                        current_couplings[i] - new_couplings[i]]
        data == ScalingData(residual, new_couplings,
                            get_outputs_by_name(ld, _input_couplings))
        value == NormedResidual(residual, new_couplings, data)
    IN  IF ResidualRaises(residual)
        THEN /\ _scaling_data' = data
             /\ _starting_indices' = indices
             /\ residual_history' = history
             /\ local_data' = ld
             /\ UNCHANGED << normed_residual, _current_iter >>
        ELSE /\ _scaling_data' = data
             /\ normed_residual' = value
             /\ IF store_it
                THEN /\ _starting_indices' = StartingIndices(indices, history)
                     /\ residual_history' = Append(history, value)
                     /\ _current_iter' = _current_iter + 1
                ELSE /\ _starting_indices' = indices
                     /\ residual_history' = history
                     /\ _current_iter' = _current_iter
             /\ local_data' = [ld EXCEPT ![RESIDUALS_NORM] = Some(<< value >>)]

\* ---------------------------------------------------------- stop criterion
\* self.normed_residual <= self.tolerance, which is False for nan.
residual_is_small == normed_residual # NaN /\ FracLeq(normed_residual, tolerance)

\* Variant: the cap is reached one iteration late.
max_iter_is_reached_late == max_mda_iter < _current_iter

max_iter_is_reached == max_mda_iter <= _current_iter

\* MDA._warn_convergence_criteria logs a warning in this case.
LogsWarning == max_iter_is_reached /\ ~residual_is_small

\* Variant: the loop stops on convergence only.
_stop_criterion_without_cap == residual_is_small

_stop_criterion_is_reached == residual_is_small \/ max_iter_is_reached

\* ------------------------------------------------------------- warm start
\* Variant: every cached output is loaded, not only the input couplings.
_couplings_warm_start_all_outputs(ld) ==
    IF \A n \in Names : IsNone(cache_outputs[n]) THEN ld
    ELSE [n \in Names |->
            IF ~IsNone(cache_outputs[n]) THEN cache_outputs[n] ELSE ld[n]]

\* Variant: the cached outputs are never loaded.
_couplings_warm_start_skipped(ld) == ld

\* MDA._couplings_warm_start: the local data after the warm start.
_couplings_warm_start(ld) ==
    LET cached_outputs == cache_outputs
    IN  IF \A n \in Names : IsNone(cached_outputs[n]) THEN ld
        ELSE [n \in Names |->
                IF n \in {_input_couplings[k] : k \in 1..Len(_input_couplings)}
                   /\ ~IsNone(cached_outputs[n])
                THEN cached_outputs[n] ELSE ld[n]]

\* ------------------------------------------------------ parallel execution
\* The callables of the workers: f raises ValueError on 0 and returns x + 1
\* otherwise; function_raising_exception always raises Exception.
WorkerKinds == {"f", "function_raising_exception"}

InputValues == {0, 1}

\* Either one worker that serves every input, or one worker per input.
WorkerLists == [1..1 -> WorkerKinds] \cup [1..MaxTasks -> WorkerKinds]

ExceptionsToReRaise == { {}, {"ValueError"}, {"RuntimeError"} }

\* The number of worker processes or threads of a batch.
n_processes == 2

\* The disciplines of a parallel linearization: a Sellar1 is linearized at
\* any input, an AutoPyDiscipline raises ValueError at the input 0.
DisciplineKinds == {"Sellar1", "AutoPyDiscipline"}

\* The local data and the Jacobian of a discipline linearized at an input.
LocalDataAt(discipline, x) == << "local_data", discipline, x >>
JacobianAt(discipline, x) == << "jac", discipline, x >>

\* MDODiscipline.linearize(inputs): a Jacobian or an exception.
linearize(discipline, x) ==
    IF discipline = "AutoPyDiscipline" /\ x = 0
    THEN [ok |-> FALSE, value |-> 0, exc |-> "ValueError"]
    ELSE [ok |-> TRUE, value |-> JacobianAt(discipline, x), exc |-> ""]

\* _Functor.__call__(inputs): the discipline is linearized and the pair of
\* its local data and its Jacobian is returned.
_Functor(discipline, x) ==
    LET linearized == linearize(discipline, x)
    IN  IF linearized.ok
        THEN [ok |-> TRUE,
              value |-> << LocalDataAt(discipline, x), linearized.value >>,
              exc |-> ""]
        ELSE linearized

\* The discipline behind the worker of a task.
DisciplineOf(task_index) == IF Len(workers) > 1 THEN task_index ELSE 1

\* The outcome of calling a worker on an input: a value or an exception.  A
\* worker of a parallel linearization is the functor of a discipline and is
\* named by the kind of its discipline.
Call(kind, x) ==
    IF kind = "f"
    THEN IF x = 0 THEN [ok |-> FALSE, value |-> 0, exc |-> "ValueError"]
         ELSE [ok |-> TRUE, value |-> x + 1, exc |-> ""]
    ELSE IF kind \in DisciplineKinds THEN _Functor(kind, x)
    ELSE [ok |-> FALSE, value |-> 0, exc |-> "Exception"]

\* Variant: every task is served by the first worker.
WorkerOf_first(task_index) == workers[1]

\* The worker of a task: the single worker, or the one at the task index.
WorkerOf(task_index) ==
    IF Len(workers) > 1 THEN workers[task_index] ELSE workers[1]

\* Variant: the exception of a failed call is re-raised whatever its type.
MustReRaise_any_type(out) == ~out.ok

\* Whether the collected result out is an exception to raise to the caller.
MustReRaise(out) == ~out.ok /\ out.exc \in exceptions_to_re_raise

\* Variant: the results are stored in the order of their arrival.
SlotOf_arrival(item) == got_n_outs + 1

\* The slot of a collected result: the index of its task.
SlotOf(item) == item.index

\* ------------------------------------------------------------ construction
\* The declaration of a discipline: the names of its inputs and outputs.
DisciplineDeclarations ==
    [inputs : SUBSET {"y1", "y2"}, outputs : (SUBSET {"y1", "y2"}) \ {{}}]

\* A discipline feeds another one when an output of the first is an input of
\* the second.
Feeds(ds, d, e) == d # e /\ ds[d].outputs \cap ds[e].inputs # {}

\* There is a chain of at most k feeds from the discipline d to e.
RECURSIVE Reaches(_, _, _, _)
Reaches(ds, d, e, k) ==
    /\ k > 0
    /\ \/ Feeds(ds, d, e)
       \/ \E m \in 1..Len(ds) : Feeds(ds, d, m) /\ Reaches(ds, m, e, k - 1)

\* MDOCouplingStructure.get_strongly_coupled_disciplines with
\* add_self_coupled=False: the disciplines of a strongly connected component
\* of more than one discipline.
get_strongly_coupled_disciplines(ds) ==
    {d \in 1..Len(ds) :
        \E e \in 1..Len(ds) :
            e # d /\ Reaches(ds, d, e, Len(ds)) /\ Reaches(ds, e, d, Len(ds))}

\* MDOCouplingStructure.is_self_coupled: an output is also an input.
is_self_coupled(ds, d) == ds[d].inputs \cap ds[d].outputs # {}

\* MDOCouplingStructure.all_couplings: the outputs that are inputs.
all_couplings(ds) ==
    {n \in UNION { ds[d].outputs : d \in 1..Len(ds) } :
        \E e \in 1..Len(ds) : n \in ds[e].inputs}

\* Two disciplines of one strongly connected component: one discipline, or
\* two that reach each other.
SameComponent(ds, d, e) ==
    d = e \/ (Reaches(ds, d, e, Len(ds)) /\ Reaches(ds, e, d, Len(ds)))

\* Variant: a coupling is strong when any strongly coupled discipline
\* produces it and any strongly coupled discipline consumes it.
strong_couplings_of_any_component(ds) ==
    LET strongly_coupled ==
            get_strongly_coupled_disciplines(ds)
                \cup {d \in 1..Len(ds) : is_self_coupled(ds, d)}
    IN  {n \in all_couplings(ds) :
            \E d, e \in strongly_coupled :
                n \in ds[d].outputs /\ n \in ds[e].inputs}

\* MDOCouplingStructure.strong_couplings: the couplings that a discipline
\* produces and that a discipline of the same strongly connected component
\* consumes.
strong_couplings_of(ds) ==
    {n \in all_couplings(ds) :
        \E d, e \in 1..Len(ds) :
            /\ n \in ds[d].outputs
            /\ n \in ds[e].inputs
            /\ SameComponent(ds, d, e)}

\* MDOCouplingStructure.weak_couplings: the other couplings.
weak_couplings_of(ds) == all_couplings(ds) \ strong_couplings_of(ds)

\* The attributes of the solver that MDA.__init__ takes from the coupling
\* structure of its disciplines; the solver iterates on strong_couplings.
BuildCouplings(ds) ==
    [strong_couplings |-> strong_couplings_of(ds),
     weak_couplings |-> weak_couplings_of(ds),
     all_couplings |-> all_couplings(ds)]

\* The disciplines of a graph: discipline k produces the k-th set of names,
\* and consumes at most two of the names; no discipline consumes the output
\* of the last one.
GraphOutputs == << {"ya", "yw"}, {"yb"}, {"yc"}, {"yd"} >>

GraphInputs ==
    { ins \in SUBSET {"ya", "yw", "yb", "yc"} : Cardinality(ins) <= 2 }

GraphDisciplines ==
    { [k \in 1..Len(GraphOutputs) |->
          [inputs |-> ins[k], outputs |-> GraphOutputs[k]]] :
      ins \in [1..Len(GraphOutputs) -> GraphInputs] }

\* The outputs that more than one discipline defines.
multiple_outs(ds) ==
    {n \in {"y1", "y2"} :
        \E d, e \in 1..Len(ds) :
            d # e /\ n \in ds[d].outputs /\ n \in ds[e].outputs}

\* The disciplines that are strongly coupled and self-coupled.
also_strong(ds) ==
    {d \in get_strongly_coupled_disciplines(ds) : is_self_coupled(ds, d)}

\* MDA._check_consistency: the warnings it logs, and the exception it
\* raises.
_check_consistency(ds) ==
    [warnings |->
        {<< "Self coupling variables in discipline", d >> :
            d \in also_strong(ds)}
        \cup (IF also_strong(ds) # {}
              THEN {<< "contain self-couplings and strong couplings",
                       also_strong(ds) >>}
              ELSE {})
        \cup (IF multiple_outs(ds) # {}
              THEN {<< "outputs are defined multiple times",
                       multiple_outs(ds) >>}
              ELSE {}),
     raised |-> None]

\* MDA.__check_linear_solver_options: the exception it raises.
check_linear_solver_options ==
    IF "tol" \in linear_solver_options THEN Some("ValueError") ELSE None

\* MDA._check_coupling_types: the exception it raises.
_check_coupling_types(ds) ==
    IF all_couplings(ds) \cap not_array_names # {} THEN Some("TypeError")
    ELSE None

\* ------------------------------------------------------------ Jacobi solver
\* The disciplines of a Jacobi solver: f_sellar_1 raises ValueError and func
\* raises ZeroDivisionError when x is 0; Sellar1 and Sellar2 never raise.
JacobiKinds == {"Sellar1", "Sellar2", "f_sellar_1", "func"}

\* Variant: the batch of a Jacobi solver re-raises no exception.
JacobiExceptionsToReRaise_none == {}

\* The exceptions that the batch of a Jacobi solver raises to its caller.
JacobiExceptionsToReRaise == {"ValueError"}

\* The coupling that the discipline of a position of the batch produces.
JacobiOutputName(d) == IF d = 1 THEN "y1" ELSE "y2"

\* Discipline.evaluate on the data: the first discipline computes y1 from x
\* and y2, the second y2 from x and y1.
JacobiEvaluate(d, data) ==
    LET x == Get(data["x"])[1]
        y1 == Get(data["y1"])[1]
        y2 == Get(data["y2"])[1]
        kind == jacobi_disciplines[d]
    IN  IF kind = "f_sellar_1" /\ x = 0
        THEN [ok |-> FALSE, value |-> 0, exc |-> "ValueError"]
        ELSE IF kind = "func" /\ x = 0
        THEN [ok |-> FALSE, value |-> 0, exc |-> "ZeroDivisionError"]
        ELSE IF d = 1
        THEN [ok |-> TRUE, value |-> (x + y2 + 1) % 2, exc |-> ""]
        ELSE [ok |-> TRUE, value |-> (x + y1) % 2, exc |-> ""]

\* Variant: a discipline reads the outputs that the disciplines of the same
\* batch have already returned.
BatchInput_latest(d) ==
    [n \in Names |->
        IF \E e \in 1..Len(batch_outputs) :
              JacobiOutputName(e) = n /\ ~IsNone(batch_outputs[e])
        THEN LET e == CHOOSE e \in 1..Len(batch_outputs) :
                          JacobiOutputName(e) = n
             IN  Some(<< Get(batch_outputs[e]) >>)
        ELSE snapshot[n]]

\* The data that a discipline of the batch reads: the previous iterate.
BatchInput(d) == snapshot

\* ----------------------------------------------------------------- actions
\* The state of a solver instance after construction.
Constructed ==
    /\ _input_couplings = ComputeInputCouplings(coupling_structure)
    /\ residual_history = << >>
    /\ _starting_indices = << >>
    /\ _scaling_data = None
    /\ _current_iter = 0
    /\ normed_residual = << 1, 1 >>
    /\ local_data = [n \in Names |-> None]
    /\ cache_inputs = [n \in Names |-> None]
    /\ cache_outputs = [n \in Names |-> None]
    /\ disc_last = None
    /\ status = "NOT_STARTED"
    /\ warned = FALSE
    /\ evals_used = 0

\* The state of a parallel execution before its first batch.
NoBatch ==
    /\ queue_in = << >>
    /\ running = {}
    /\ queue_out = << >>
    /\ ordered_outputs = << >>
    /\ got_n_outs = 0
    /\ output = None
    /\ stop = FALSE

\* The attributes of a discipline, or of a worker, that were never set.
NoAttributes == [local_data |-> None, jac |-> None]

\* No parallel linearization.
NoLinearization ==
    /\ disciplines = << >>
    /\ use_threading = FALSE
    /\ MULTI_PROCESSING_START_METHOD = "fork"
    /\ disc_attrs = << >>
    /\ worker_attrs = << >>
    /\ n_calls = 0
    /\ n_calls_linearize = 0
    /\ lin_outputs = << >>

\* No Jacobi solver.
NoJacobi ==
    /\ jacobi_disciplines = << >>
    /\ n_workers = 1
    /\ snapshot = [n \in Names |-> None]
    /\ batch_queue = << >>
    /\ batch_running = {}
    /\ batch_outputs = << >>
    /\ batch_raised = None
    /\ logged = {}
    /\ downstream_n_calls = 0
    /\ jpc = "none"

\* ---- The total derivatives of the solver ----

\* The values that a caller gives to the attribute lin_cache_tol_fact.
LinCacheTolFacts == {0, 1, 2}

\* The residual variables that the disciplines declare, as pairs of a residual
\* name and of its state variable.
ResidualVariables == { {}, {<< "y2", "y1" >>} }

\* all_couplings of the solver: the couplings of its coupling structure.
mda_all_couplings == coupling_structure.strong

\* exec_cache_tol = lin_cache_tol_fact * tolerance; the tolerance is kept
\* squared, and so is the product.
exec_cache_tol_of(fact, tol) == Frac(fact * fact * tol[1], tol[2])

\* execute=exec_cache_tol == 0.0
ExecuteFlag_inverted(tol) == tol # << 0, 1 >>

ExecuteFlag(tol) == tol = << 0, 1 >>

\* sorted(set(all_couplings) - residual_variables.keys()): the state
\* variables of the residuals are kept.
couplings_adjoint_of_keys_only(couplings, residuals) ==
    Sorted(couplings \ { r[1] : r \in residuals })

\* sorted(set(all_couplings) - residual_variables.keys()
\*        - set(residual_variables.values()))
couplings_adjoint_of(couplings, residuals) ==
    Sorted(couplings \ ({ r[1] : r \in residuals } \cup
                        { r[2] : r \in residuals }))

\* The outputs that a caller of the solver marked as differentiated.
DifferentiatedOutputs ==
    { {"y1"}, {"y1", RESIDUALS_NORM}, {"y1", "y2", RESIDUALS_NORM} }

\* Variant: the norm of the residuals stays among the outputs.
_retrieve_diff_inouts_all_outputs(compute_all_jacobians, diff_in, diff_out) ==
    IF compute_all_jacobians
    THEN << get_input_data_names \ coupling_structure.strong,
            get_output_data_names >>
    ELSE << diff_in, diff_out >>

\* MDA._retrieve_diff_inouts(compute_all_jacobians), on a solver whose
\* differentiated inputs and outputs are diff_in and diff_out.
_retrieve_diff_inouts(compute_all_jacobians, diff_in, diff_out) ==
    LET inputs_outputs ==
            IF compute_all_jacobians
            THEN << get_input_data_names \ coupling_structure.strong,
                    get_output_data_names >>
            ELSE << diff_in, diff_out >>
    IN  << inputs_outputs[1], inputs_outputs[2] \ {RESIDUALS_NORM} >>

\* The point at which the solver asks for its derivatives: its local data.
RequestedPoint(ld) == concatenate(get_outputs_by_name(ld, NameOrder))

\* The squared distance of two points.
PointDistance(p, q) == SumSq([k \in 1..Len(p) |-> p[k] - q[k]])

\* The cached linearization of the disciplines serves a request when the
\* disciplines need not be executed again and its point is within the
\* tolerance of the requested one.
CacheServes(point, tol, execute) ==
    /\ ~execute
    /\ ~IsNone(cached_point)
    /\ FracLeq(Frac(PointDistance(Get(cached_point), point), 1), tol)

\* The point at which the disciplines are linearized, and the coupled
\* Jacobian assembled, for a request.
LinearizationPoint(point, tol, execute) ==
    IF CacheServes(point, tol, execute) THEN Get(cached_point) ELSE point

\* The stored LU factorization is that of the Jacobian at this point.
LuIsValid_any_point(point) == ~IsNone(lu_fact)

LuIsValid(point) == lu_fact = Some(point)

\* ---- The acceleration of the Jacobi iterates ----

\* The size of the vectors of couplings that are accelerated.
AccSize == 2

AccelerationMethods == {"secant", "m2d"}

RECURSIVE Dot(_, _)
Dot(u, v) ==
    IF Len(u) = 0 THEN 0 ELSE Head(u) * Head(v) + Dot(Tail(u), Tail(v))

VecSub(u, v) == [i \in 1..Len(u) |-> u[i] - v[i]]

\* A vector of fractions with one denominator: its numerators, and it.
Plain(v) == << v, 1 >>

\* MDAJacobi._compute_secant_acc(dxn, dxn_1, cgn, cgn_1): the last output
\* cgn corrected with the secant of the last two increments; when the
\* increments are equal the correction is nan and cgn is returned.
_compute_secant_acc(dxn, dxn_1, cgn, cgn_1) ==
    LET d_dxn == VecSub(dxn, dxn_1)
        den == Dot(d_dxn, d_dxn)
        num == Dot(d_dxn, dxn)
    IN  IF den = 0 THEN Plain(cgn)
        ELSE << [i \in 1..Len(cgn) |->
                    cgn[i] * den - (cgn[i] - cgn_1[i]) * num], den >>

\* Variant: the failure of the linear solve is not reported.
_minimize_2md_unreported(dxn, dxn_1, dxn_2) ==
    [sol |-> << 0, 0 >>, den |-> 1, ok |-> TRUE]

\* MDAJacobi._minimize_2md(dxn, dxn_1, dxn_2): the combination of the two
\* differences of increments that minimizes the next increment, from the
\* normal equations; the zero combination and False when their matrix is
\* singular.
_minimize_2md(dxn, dxn_1, dxn_2) ==
    LET d1 == VecSub(dxn_2, dxn_1)
        d2 == VecSub(dxn_1, dxn)
        a11 == Dot(d1, d1)
        a12 == Dot(d1, d2)
        a22 == Dot(d2, d2)
        b1 == Dot(d1, dxn_2)
        b2 == Dot(d2, dxn_2)
        det == a11 * a22 - a12 * a12
    IN  IF det = 0 THEN [sol |-> << 0, 0 >>, den |-> 1, ok |-> FALSE]
        ELSE [sol |-> << a12 * b2 - a22 * b1, a12 * b1 - a11 * b2 >>,
              den |-> det, ok |-> TRUE]

\* MDAJacobi._compute_m2d_acc: the last output corrected with the combination,
\* or the last output when the minimization failed.
_compute_m2d_acc(result, cgn, cgn_1) ==
    IF result.ok
    THEN << [i \in 1..Len(cgn) |->
                cgn[i] * result.den + result.sol[1] * (cgn[i] - cgn_1[i])
                    + result.sol[2] * cgn_1[i]], result.den >>
    ELSE Plain(cgn)

\* No acceleration of iterates.
NoAcceleration ==
    /\ acceleration = "none"
    /\ window = None
    /\ acc_result = None
    /\ next_iterate = None
    /\ apc = "none"

\* ---- DiscFromExe.generate_uid ----

\* The callers of generate_uid: processes or threads.
Callers == 1..MaxCallers

\* The maximum index of the folders that exist when the discipline is built.
InitialDirs == {0, 2, 9}

\* str(n) for a natural number n: its decimal digits.
RECURSIVE str(_)
str(n) == IF n < 10 THEN << n >> ELSE str(n \div 10) \o << n % 10 >>

\* Variant: the lock is not taken.
LockIsFree_always == TRUE

\* The lock of the discipline can be acquired.
LockIsFree == lock = 0

\* No DiscFromExe.
NoUid ==
    /\ folders_iter = "none"
    /\ lock = 0
    /\ _counter = 0
    /\ n_dirs = 0
    /\ upc = << >>
    /\ local_value = << >>
    /\ lock_order = << >>
    /\ returned = << >>

\* No residual history was plotted.
NoPlot == figure = None

\* ---- AlgoLib ----

\* lib_dict: the algorithms of the library and their names in the library.
lib_dict == [a \in {"SLSQP", "L-BFGS-B"} |->
                [internal_algo_name |-> IF a = "SLSQP" THEN "slsqp"
                                        ELSE "l-bfgs-b"]]

\* The names that execute is called with, known by the library or not.
AlgoNames == {"SLSQP", "L-BFGS-B", "DUMMY"}

\* The problems: whether the algorithms are suited to them and whether
\* their check passes.
Problems == [suited : BOOLEAN, valid : BOOLEAN]

\* The options of the grammar of the algorithms, with their defaults.
GrammarOptions == {"max_iter", "normalize_design_space"}

\* The options that execute is called with.
OptionSets == { {}, {"max_iter"}, {"max_iter", "unknown_option"} }

\* AlgoLib.driver_has_option(option_key).
driver_has_option(option_key) == option_key \in GrammarOptions

\* AlgoLib._get_options(**options) of a library: the options completed by
\* the default ones.
_get_options(opts) == opts \cup GrammarOptions

\* The steps of a call of execute, in the order of the code.
ExecuteSteps ==
    << "_check_algorithm", "_update_algorithm_options", "problem.check",
       "_pre_run", "_run", "_post_run" >>

\* No algorithm library.
NoAlgoLib ==
    /\ algo_name = None
    /\ internal_algo_name = None
    /\ problem = None
    /\ algo_arg = None
    /\ algo_options = {}
    /\ algo_warnings = {}
    /\ calls = << >>
    /\ algo_exception = None
    /\ algo_result = None
    /\ lpc = "none"
    /\ n_executes = 0

\* Nothing but solvers and parallel executions.
NoOther == NoAcceleration /\ NoUid /\ NoPlot /\ NoAlgoLib

\* A solver whose total derivatives are not computed: its attributes are
\* those that the construction sets.
NoDerivatives ==
    /\ lin_cache_tol_fact = 0
    /\ use_lu_fact = FALSE
    /\ residual_variables = {}
    /\ assembly_call = None
    /\ cached_point = None
    /\ lu_fact = None
    /\ lu_used = None
    /\ jac = None
    /\ dpc = "none"

\* No solver under construction.
NoConstruction ==
    /\ mda_disciplines = << >>
    /\ not_array_names = {}
    /\ linear_solver_options = {}
    /\ warnings = {}
    /\ raised = None
    /\ cpc = "none"
    /\ built_couplings = None

\* A solver instance that is constructed and never run.
NoSolverRun ==
    /\ tolerance = << 0, 1 >>
    /\ max_mda_iter = 1
    /\ warm_start = FALSE
    /\ reset_history_each_run = FALSE
    /\ scaling = "initial_residual_norm"
    /\ coupling_structure = [strong |-> {"y1", "y2"},
                             size |-> [n \in {"x", "y1", "y2"} |-> 1]]
    /\ Constructed
    /\ pc = "none"

\* A solver instance with any configuration, and no parallel execution.
InitSolver ==
    /\ tolerance \in Tolerances
    /\ max_mda_iter \in MaxMdaIters
    /\ warm_start \in BOOLEAN
    /\ reset_history_each_run \in BOOLEAN
    /\ scaling \in ResidualScaling
    /\ coupling_structure \in CouplingStructures
    /\ Constructed
    /\ pc = "idle"
    /\ workers = << >>
    /\ inputs = << >>
    /\ exceptions_to_re_raise = {}
    /\ NoBatch
    /\ ppc = "none"
    /\ NoLinearization
    /\ NoJacobi
    /\ NoConstruction
    /\ NoDerivatives
    /\ NoOther

\* A parallel execution with any workers and inputs, and no solver run.
InitParallel ==
    /\ workers \in WorkerLists
    /\ inputs \in [1..MaxTasks -> InputValues]
    /\ exceptions_to_re_raise \in ExceptionsToReRaise
    /\ NoBatch
    /\ ppc = "idle"
    /\ NoLinearization
    /\ NoJacobi
    /\ NoConstruction
    /\ NoDerivatives
    /\ NoSolverRun
    /\ NoOther

\* A parallel linearization of one discipline, or of one discipline per
\* input, with threads or with processes.
InitLinearization ==
    /\ disciplines \in
          [1..1 -> DisciplineKinds] \cup [1..MaxTasks -> DisciplineKinds]
    /\ workers = disciplines
    /\ inputs \in [1..MaxTasks -> InputValues]
    /\ exceptions_to_re_raise \in { {}, {"ValueError"} }
    /\ use_threading \in BOOLEAN
    /\ MULTI_PROCESSING_START_METHOD \in {"fork", "spawn"}
    /\ disc_attrs = [i \in 1..Len(disciplines) |-> NoAttributes]
    /\ worker_attrs = [i \in 1..Len(disciplines) |-> NoAttributes]
    /\ n_calls = 0
    /\ n_calls_linearize = 0
    /\ lin_outputs = << >>
    /\ NoBatch
    /\ ppc = "idle"
    /\ NoJacobi
    /\ NoConstruction
    /\ NoDerivatives
    /\ NoSolverRun
    /\ NoOther

\* A Jacobi solver of two disciplines, the first producing y1 from x and y2
\* and the second y2 from x and y1, run on the samples of a sampling loop
\* with one worker or two; a third discipline is downstream of the solver.
InitJacobi ==
    /\ jacobi_disciplines \in
          {<< kind, "Sellar2" >> : kind \in JacobiKinds \ {"Sellar2"}}
    /\ n_workers \in 1..2
    /\ snapshot = [n \in Names |-> None]
    /\ batch_queue = << >>
    /\ batch_running = {}
    /\ batch_outputs = << >>
    /\ batch_raised = None
    /\ logged = {}
    /\ downstream_n_calls = 0
    /\ jpc = "sampling"
    /\ tolerance = << 0, 1 >>
    /\ max_mda_iter \in MaxMdaIters
    /\ warm_start = FALSE
    /\ reset_history_each_run = FALSE
    /\ scaling = "initial_residual_norm"
    /\ coupling_structure = [strong |-> {"y1", "y2"},
                             size |-> [n \in {"x", "y1", "y2"} |-> 1]]
    /\ Constructed
    /\ pc = "none"
    /\ workers = << >>
    /\ inputs = << >>
    /\ exceptions_to_re_raise = {}
    /\ NoBatch
    /\ ppc = "none"
    /\ NoLinearization
    /\ NoConstruction
    /\ NoDerivatives
    /\ NoOther

\* The arguments of the construction of a solver: up to MaxDisciplines
\* disciplines with any declared inputs and outputs, the names whose grammar
\* type is not an array, and the options of the linear solver.
InitConstruction ==
    /\ \E n \in 1..MaxDisciplines :
          mda_disciplines \in [1..n -> DisciplineDeclarations]
    /\ not_array_names \in { {}, {"y1"} }
    /\ linear_solver_options \in { {}, {"tol"} }
    /\ warnings = {}
    /\ raised = None
    /\ cpc = "constructing"
    /\ built_couplings = None
    /\ workers = << >>
    /\ inputs = << >>
    /\ exceptions_to_re_raise = {}
    /\ NoBatch
    /\ ppc = "none"
    /\ NoLinearization
    /\ NoJacobi
    /\ NoDerivatives
    /\ NoSolverRun
    /\ NoOther

\* The arguments of the construction of a solver over four disciplines, each
\* producing its own names and consuming at most two names.
InitGraph ==
    /\ mda_disciplines \in GraphDisciplines
    /\ not_array_names = {}
    /\ linear_solver_options = {}
    /\ warnings = {}
    /\ raised = None
    /\ cpc = "constructing"
    /\ built_couplings = None
    /\ workers = << >>
    /\ inputs = << >>
    /\ exceptions_to_re_raise = {}
    /\ NoBatch
    /\ ppc = "none"
    /\ NoLinearization
    /\ NoJacobi
    /\ NoDerivatives
    /\ NoSolverRun
    /\ NoOther

\* A solver instance of which the total derivatives are computed after its
\* runs: lin_cache_tol_fact is 0 after the construction.
InitDerivatives ==
    /\ tolerance \in Tolerances
    /\ max_mda_iter = 1
    /\ warm_start = FALSE
    /\ reset_history_each_run = FALSE
    /\ scaling = "initial_residual_norm"
    /\ coupling_structure = [strong |-> {"y1", "y2"},
                             size |-> [n \in {"x", "y1", "y2"} |-> 1]]
    /\ Constructed
    /\ pc = "idle"
    /\ lin_cache_tol_fact = 0
    /\ use_lu_fact \in BOOLEAN
    /\ residual_variables \in ResidualVariables
    /\ assembly_call = None
    /\ cached_point = None
    /\ lu_fact = None
    /\ lu_used = None
    /\ jac = None
    /\ dpc = "ready"
    /\ workers = << >>
    /\ inputs = << >>
    /\ exceptions_to_re_raise = {}
    /\ NoBatch
    /\ ppc = "none"
    /\ NoLinearization
    /\ NoJacobi
    /\ NoConstruction
    /\ NoOther

\* A solver instance over disciplines that form a chain: no coupling is
\* strong and the vector of the residuals is empty.
InitChain ==
    /\ tolerance \in Tolerances
    /\ max_mda_iter \in MaxMdaIters
    /\ warm_start \in BOOLEAN
    /\ reset_history_each_run \in BOOLEAN
    /\ scaling \in ResidualScaling
    /\ coupling_structure = [strong |-> {}, size |-> [n \in {"x"} |-> 1]]
    /\ Constructed
    /\ pc = "idle"
    /\ workers = << >>
    /\ inputs = << >>
    /\ exceptions_to_re_raise = {}
    /\ NoBatch
    /\ ppc = "none"
    /\ NoLinearization
    /\ NoJacobi
    /\ NoConstruction
    /\ NoDerivatives
    /\ NoOther

\* A solver instance with any residual scaling, linearized after its runs.
InitLinearize ==
    /\ tolerance = << 1, 2 >>
    /\ max_mda_iter = 1
    /\ warm_start = FALSE
    /\ reset_history_each_run = FALSE
    /\ scaling \in ResidualScaling
    /\ coupling_structure = [strong |-> {"y1", "y2"},
                             size |-> [n \in {"x", "y1", "y2"} |-> 1]]
    /\ Constructed
    /\ pc = "idle"
    /\ lin_cache_tol_fact = 0
    /\ use_lu_fact = FALSE
    /\ residual_variables = {}
    /\ assembly_call = None
    /\ cached_point = None
    /\ lu_fact = None
    /\ lu_used = None
    /\ jac = None
    /\ dpc = "ready"
    /\ workers = << >>
    /\ inputs = << >>
    /\ exceptions_to_re_raise = {}
    /\ NoBatch
    /\ ppc = "none"
    /\ NoLinearization
    /\ NoJacobi
    /\ NoConstruction
    /\ NoOther

\* A Jacobi solver with an acceleration, at an iteration: the window holds
\* the last increments of the couplings and the last two outputs of the
\* disciplines.
InitAcceleration ==
    /\ acceleration \in AccelerationMethods
    /\ window \in { Some(w) : w \in
          [dxn : Vectors(AccSize), dxn_1 : Vectors(AccSize),
           dxn_2 : IF acceleration = "m2d" THEN Vectors(AccSize)
                   ELSE {[i \in 1..AccSize |-> 0]},
           cgn : Vectors(AccSize), cgn_1 : Vectors(AccSize)] }
    /\ acc_result = None
    /\ next_iterate = None
    /\ apc = "iterating"
    /\ NoUid
    /\ NoPlot
    /\ NoAlgoLib
    /\ workers = << >>
    /\ inputs = << >>
    /\ exceptions_to_re_raise = {}
    /\ NoBatch
    /\ ppc = "none"
    /\ NoLinearization
    /\ NoJacobi
    /\ NoConstruction
    /\ NoDerivatives
    /\ NoSolverRun

\* DiscFromExe.__init__: the counter is a value shared by the processes, set
\* to the maximum index of the existing folders, and the lock is free.
InitUid ==
    /\ folders_iter \in {"NUMBERED", "UUID"}
    /\ lock = 0
    /\ n_dirs \in InitialDirs
    /\ _counter = n_dirs
    /\ upc = [p \in Callers |-> "idle"]
    /\ local_value = [p \in Callers |-> 0]
    /\ lock_order = << >>
    /\ returned = [p \in Callers |-> None]
    /\ NoAcceleration
    /\ NoPlot
    /\ NoAlgoLib
    /\ workers = << >>
    /\ inputs = << >>
    /\ exceptions_to_re_raise = {}
    /\ NoBatch
    /\ ppc = "none"
    /\ NoLinearization
    /\ NoJacobi
    /\ NoConstruction
    /\ NoDerivatives
    /\ NoSolverRun

\* A solver instance whose residual history is plotted between its runs.
InitPlot ==
    /\ tolerance = << 1, 2 >>
    /\ max_mda_iter \in MaxMdaIters
    /\ warm_start = FALSE
    /\ reset_history_each_run \in BOOLEAN
    /\ scaling = "no_scaling"
    /\ coupling_structure = [strong |-> {"y1", "y2"},
                             size |-> [n \in {"x", "y1", "y2"} |-> 1]]
    /\ Constructed
    /\ pc = "idle"
    /\ workers = << >>
    /\ inputs = << >>
    /\ exceptions_to_re_raise = {}
    /\ NoBatch
    /\ ppc = "none"
    /\ NoLinearization
    /\ NoJacobi
    /\ NoConstruction
    /\ NoDerivatives
    /\ NoOther

\* AlgoLib.__init__ of a library: the attributes are None, but the name of
\* the algorithm, which the factory may have set.
InitAlgoLib ==
    /\ algo_name \in {None, Some("SLSQP")}
    /\ internal_algo_name = None
    /\ problem = None
    /\ algo_arg = None
    /\ algo_options = {}
    /\ algo_warnings = {}
    /\ calls = << >>
    /\ algo_exception = None
    /\ algo_result = None
    /\ lpc = "idle"
    /\ n_executes = 0
    /\ NoAcceleration
    /\ NoUid
    /\ NoPlot
    /\ workers = << >>
    /\ inputs = << >>
    /\ exceptions_to_re_raise = {}
    /\ NoBatch
    /\ ppc = "none"
    /\ NoLinearization
    /\ NoJacobi
    /\ NoConstruction
    /\ NoDerivatives
    /\ NoSolverRun

Init ==
    \/ InitAlgoLib
    \/ InitPlot
    \/ InitUid
    \/ InitAcceleration \/ InitGraph
    \/ InitSolver \/ InitParallel \/ InitLinearization \/ InitJacobi
    \/ InitConstruction \/ InitDerivatives \/ InitLinearize \/ InitChain

\* MDA.execute(input_data): the iteration counter is reset and the local
\* data become the input data completed by the default inputs.
Execute ==
    /\ pc = "idle"
    /\ evals_used < MaxEvals
    /\ \E x \in XValues :
          local_data' = [n \in Names |->
              IF n = "x" THEN Some(<< x >>)
              ELSE IF n \in get_input_data_names THEN Some(default_inputs(n))
              ELSE None]
    /\ _current_iter' = 0
    /\ status' = "ITERATING"
    /\ pc' = "warm_start"
    /\ warned' = FALSE
    /\ UNCHANGED << outside_solver, config_vars, residual_history,
                    _starting_indices,
                    _scaling_data, normed_residual, cache_inputs,
                    cache_outputs, disc_last, evals_used >>

\* The entry of the run: the couplings are warm started when asked.
RunStart ==
    /\ pc = "warm_start"
    /\ local_data' = IF warm_start THEN _couplings_warm_start(local_data)
                     ELSE local_data
    /\ pc' = "evaluate"
    /\ UNCHANGED << outside_solver, config_vars, residual_history,
                    _starting_indices,
                    _scaling_data, _current_iter, normed_residual,
                    cache_inputs, cache_outputs, disc_last, status, warned,
                    evals_used >>

\* The point at which the disciplines are evaluated.
InputPoint(ld) == << Get(ld["x"]), _current_input_couplings(ld) >>

\* The disciplines are deterministic: evaluated again at the point of their
\* last evaluation they return the same outputs; elsewhere, any outputs.
DisciplinesReturn(point, out) ==
    IF IsNone(disc_last) THEN TRUE
    ELSE IF Get(disc_last)[1] = point THEN Get(disc_last)[2] = out ELSE TRUE

\* One iteration: the disciplines are evaluated, their outputs replace the
\* couplings and the residual is computed and stored.
Iterate ==
    /\ pc = "evaluate"
    /\ evals_used < MaxEvals
    /\ LET current_couplings == _current_input_couplings(local_data)
           point == InputPoint(local_data)
       IN  \E out \in Vectors(Len(current_couplings)) :
              /\ DisciplinesReturn(point, out)
              /\ disc_last' = Some(<< point, out >>)
              /\ LET ld == UpdateLocalData(local_data, out)
                 IN  _compute_residual(current_couplings,
                                       _current_input_couplings(ld), TRUE, ld)
    /\ IF ResidualRaises(_current_input_couplings(local_data))
       THEN pc' = "idle" /\ status' = "FAILED"
       ELSE pc' = "check" /\ status' = status
    /\ evals_used' = evals_used + 1
    /\ UNCHANGED << outside_solver, config_vars, cache_inputs, cache_outputs,
                    warned >>

\* A residual computation that is not stored: the residual of the current
\* couplings is evaluated and the couplings are kept.
Probe ==
    /\ pc = "evaluate"
    /\ LET current_couplings == _current_input_couplings(local_data)
           point == InputPoint(local_data)
       IN  \E out \in Vectors(Len(current_couplings)) :
              /\ DisciplinesReturn(point, out)
              /\ disc_last' = Some(<< point, out >>)
              /\ _compute_residual(current_couplings, out, FALSE, local_data)
    /\ IF ResidualRaises(_current_input_couplings(local_data))
       THEN pc' = "idle" /\ status' = "FAILED"
       ELSE pc' = pc /\ status' = status
    /\ UNCHANGED << outside_solver, config_vars, cache_inputs, cache_outputs,
                    warned, evals_used >>

\* The loop test: the run goes on, or it ends and its outputs are cached.
CheckStop ==
    /\ pc = "check"
    /\ warned' = (warned \/ LogsWarning)
    /\ IF _stop_criterion_is_reached
       THEN /\ status' = IF residual_is_small THEN "CONVERGED"
                         ELSE "MAX_ITER_REACHED"
            /\ pc' = "idle"
            /\ cache_inputs' = [n \in Names |->
                    IF n = "x" THEN local_data[n]
                    ELSE IF n \in get_input_data_names
                         THEN Some(default_inputs(n)) ELSE None]
            /\ cache_outputs' = [n \in Names |->
                    IF n \in get_output_data_names THEN local_data[n] ELSE None]
       ELSE /\ pc' = "evaluate"
            /\ UNCHANGED << status, cache_inputs, cache_outputs >>
    /\ UNCHANGED << outside_solver, config_vars, residual_history,
                    _starting_indices,
                    _scaling_data, _current_iter, normed_residual, local_data,
                    disc_last, evals_used >>

\* CallableParallelExecution.execute(inputs): the tasks are queued and the
\* result slots are all None.
ParExecute ==
    /\ ppc = "idle"
    /\ queue_in' = [i \in 1..Len(inputs) |-> i]
    /\ ordered_outputs' = [i \in 1..Len(inputs) |-> None]
    /\ got_n_outs' = 0
    /\ output' = None
    /\ stop' = FALSE
    /\ running' = {}
    /\ queue_out' = << >>
    /\ ppc' = "collecting"
    /\ UNCHANGED << lin_vars, outside_batch, workers, inputs,
                    exceptions_to_re_raise >>

\* A free worker process takes the next task of the input queue.
WorkerGet ==
    /\ ppc = "collecting"
    /\ Len(queue_in) > 0
    /\ Cardinality(running) < n_processes
    /\ running' = running \cup {Head(queue_in)}
    /\ queue_in' = Tail(queue_in)
    /\ UNCHANGED << lin_vars, outside_batch, workers, inputs,
                    exceptions_to_re_raise, queue_out, ordered_outputs,
                    got_n_outs, output, stop, ppc >>

\* A worker process or thread ends a task: it queues the output, or the
\* exception it caught, with the index of the task.  A discipline linearized
\* by a thread is the discipline of the caller and holds its new local data
\* and Jacobian; a discipline linearized by a process is a copy.
WorkerPut ==
    /\ ppc = "collecting"
    /\ \E task_index \in running :
          LET result == Call(WorkerOf(task_index), inputs[task_index])
          IN  /\ queue_out' = Append(queue_out,
                    [index |-> task_index, output |-> result])
              /\ running' = running \ {task_index}
              /\ disc_attrs' =
                    IF Len(disciplines) > 0 /\ use_threading /\ result.ok
                    THEN [disc_attrs EXCEPT ![DisciplineOf(task_index)] =
                            [local_data |-> Some(result.value[1]),
                             jac |-> Some(result.value[2])]]
                    ELSE disc_attrs
    /\ UNCHANGED << outside_batch, workers, inputs,
                    exceptions_to_re_raise, queue_in, ordered_outputs,
                    got_n_outs, output, stop, ppc,
                    disciplines, use_threading, MULTI_PROCESSING_START_METHOD,
                    worker_attrs, n_calls, n_calls_linearize, lin_outputs >>

\* The caller takes one result of the output queue: an output goes to the
\* slot of its task, an exception leaves the slot to None and stops the
\* collection when its type is to be re-raised.  The result taken last is
\* kept: it is the exception that the end of the batch raises.
Collect ==
    /\ ppc = "collecting"
    /\ got_n_outs # Len(inputs)
    /\ ~stop
    /\ Len(queue_out) > 0
    /\ LET item == Head(queue_out)
       IN  /\ ordered_outputs' =
                 IF item.output.ok
                 THEN [ordered_outputs EXCEPT
                          ![SlotOf(item)] = Some(item.output.value)]
                 ELSE ordered_outputs
           /\ output' = Some(item.output)
           /\ stop' = MustReRaise(item.output)
    /\ queue_out' = Tail(queue_out)
    /\ got_n_outs' = got_n_outs + 1
    /\ UNCHANGED << lin_vars, outside_batch, workers, inputs,
                    exceptions_to_re_raise, queue_in, running, ppc >>

\* The end of the batch: the exception is raised, or the slots are returned.
ParFinish ==
    /\ ppc = "collecting"
    /\ (got_n_outs = Len(inputs) \/ stop)
    /\ ppc' = IF stop THEN "raised" ELSE "returned"
    /\ UNCHANGED << lin_vars, outside_batch, workers, inputs,
                    exceptions_to_re_raise, queue_in, running, queue_out,
                    ordered_outputs, got_n_outs, output, stop >>

ParNext == ParExecute \/ WorkerGet \/ WorkerPut \/ Collect \/ ParFinish

\* The slots of the batch that hold None.
NoneSlots == {i \in 1..Len(ordered_outputs) : IsNone(ordered_outputs[i])}

\* The attributes written from the pair (local data, Jacobian) of a slot.
AttributesOf(slot) ==
    [local_data |-> Some(slot[1][1]), jac |-> Some(slot[1][2])]

\* DiscParallelLinearization.execute once the batch has returned its slots:
\* the attributes local_data and jac are written on the workers, the calls
\* of a single discipline are counted under the spawn start method, and the
\* Jacobians of the slots are returned.  Indexing a slot that holds None
\* raises TypeError: the writes made before it remain.
LinFinish ==
    /\ ppc = "returned"
    /\ Len(disciplines) > 0
    /\ LET single == Len(disciplines) = 1
           first_none ==
               IF NoneSlots = {} THEN Len(ordered_outputs) + 1
               ELSE CHOOSE i \in NoneSlots : \A j \in NoneSlots : i <= j
           counted == /\ ~use_threading
                      /\ MULTI_PROCESSING_START_METHOD = "spawn"
                      /\ first_none > 1
       IN  IF single \/ Len(disciplines) # Len(inputs)
           THEN /\ worker_attrs' =
                     IF single /\ first_none > 1
                     THEN [worker_attrs EXCEPT
                              ![1] = AttributesOf(ordered_outputs[1])]
                     ELSE worker_attrs
                /\ n_calls' =
                     IF counted THEN n_calls + Len(inputs) ELSE n_calls
                /\ n_calls_linearize' =
                     IF counted THEN n_calls_linearize + Len(inputs)
                     ELSE n_calls_linearize
           ELSE /\ worker_attrs' =
                     [i \in 1..Len(worker_attrs) |->
                        IF i < first_none
                        THEN AttributesOf(ordered_outputs[i])
                        ELSE worker_attrs[i]]
                /\ UNCHANGED << n_calls, n_calls_linearize >>
    /\ IF NoneSlots = {}
       THEN /\ lin_outputs' = [i \in 1..Len(ordered_outputs) |->
                                  ordered_outputs[i][1][2]]
            /\ ppc' = "lin_returned"
       ELSE /\ lin_outputs' = lin_outputs
            /\ ppc' = "lin_raised"
    /\ UNCHANGED << outside_batch, workers, inputs, exceptions_to_re_raise,
                    queue_in, running, queue_out, ordered_outputs, got_n_outs,
                    output, stop, disciplines, use_threading,
                    MULTI_PROCESSING_START_METHOD, disc_attrs >>

LinNext == ParNext \/ LinFinish

\* The sampling loop evaluates a sample: the Jacobi solver is executed on it,
\* as in MDA.execute, and its couplings are warm started when asked.
SampleExecute ==
    /\ jpc = "sampling"
    /\ evals_used < MaxEvals
    /\ \E x \in XValues :
          LET ld == [n \in Names |->
                       IF n = "x" THEN Some(<< x >>)
                       ELSE IF n \in get_input_data_names
                            THEN Some(default_inputs(n))
                       ELSE None]
          IN  local_data' = IF warm_start THEN _couplings_warm_start(ld)
                            ELSE ld
    /\ _current_iter' = 0
    /\ status' = "ITERATING"
    /\ warned' = FALSE
    /\ jpc' = "dispatch"
    /\ UNCHANGED << par_vars, lin_vars, con_vars, der_vars, other_vars,
                    config_vars,
                    residual_history, _starting_indices, _scaling_data, normed_residual,
                    cache_inputs, cache_outputs, disc_last, pc, evals_used,
                    jacobi_disciplines, n_workers, snapshot, batch_queue,
                    batch_running, batch_outputs, batch_raised, logged,
                    downstream_n_calls >>

\* The controlling thread starts an iteration: the current iterate is the
\* snapshot of the batch and one call per discipline is queued.
JacobiDispatch ==
    /\ jpc = "dispatch"
    /\ evals_used < MaxEvals
    /\ snapshot' = local_data
    /\ batch_queue' = [d \in 1..Len(jacobi_disciplines) |-> d]
    /\ batch_running' = {}
    /\ batch_outputs' = [d \in 1..Len(jacobi_disciplines) |-> None]
    /\ batch_raised' = None
    /\ jpc' = "batch"
    /\ UNCHANGED << par_vars, lin_vars, con_vars, der_vars, other_vars,
                    config_vars, mda_vars,
                    jacobi_disciplines, n_workers, logged,
                    downstream_n_calls >>

\* A free worker takes the next call of the batch.
JacobiGet ==
    /\ jpc = "batch"
    /\ Len(batch_queue) > 0
    /\ Cardinality(batch_running) < n_workers
    /\ batch_running' = batch_running \cup {Head(batch_queue)}
    /\ batch_queue' = Tail(batch_queue)
    /\ UNCHANGED << par_vars, lin_vars, con_vars, der_vars, other_vars,
                    config_vars, mda_vars,
                    jacobi_disciplines, n_workers, snapshot, batch_outputs,
                    batch_raised, logged, downstream_n_calls, jpc >>

\* A worker ends a call and returns its value, which goes to the slot of the
\* call; an exception is logged, leaves the slot to None and is kept for the
\* caller when its type is to be re-raised.
JacobiPut ==
    /\ jpc = "batch"
    /\ \E d \in batch_running :
          LET result == JacobiEvaluate(d, BatchInput(d))
          IN  /\ batch_running' = batch_running \ {d}
              /\ batch_outputs' =
                    IF result.ok
                    THEN [batch_outputs EXCEPT ![d] = Some(result.value)]
                    ELSE batch_outputs
              /\ logged' =
                    IF result.ok THEN logged ELSE logged \cup {result.exc}
              /\ batch_raised' =
                    IF ~result.ok /\ result.exc \in JacobiExceptionsToReRaise
                    THEN Some(result.exc)
                    ELSE batch_raised
    /\ UNCHANGED << par_vars, lin_vars, con_vars, der_vars, other_vars,
                    config_vars, mda_vars,
                    jacobi_disciplines, n_workers, snapshot, batch_queue,
                    downstream_n_calls, jpc >>

\* The batch is over.  When every discipline returned, the controlling
\* thread writes all the new couplings at once and computes the residual.
\* A re-raised ValueError leaves the solver and is caught by the sampling
\* loop, which goes to its next sample.  After any other failure the outputs
\* of the failed discipline are missing and the validation of the data
\* raises InvalidDataError, which ends the sampling loop.
JacobiUpdate ==
    /\ jpc = "batch"
    /\ Len(batch_queue) = 0
    /\ batch_running = {}
    /\ IF ~IsNone(batch_raised)
       THEN /\ status' = "FAILED"
            /\ jpc' = "sampling"
            /\ UNCHANGED << residual_history, _starting_indices,
                            _scaling_data, _current_iter, normed_residual,
                            local_data, evals_used >>
       ELSE IF \E d \in 1..Len(batch_outputs) : IsNone(batch_outputs[d])
       THEN /\ status' = "FAILED"
            /\ jpc' = "raised"
            /\ UNCHANGED << residual_history, _starting_indices,
                            _scaling_data, _current_iter, normed_residual,
                            local_data, evals_used >>
       ELSE /\ LET out == [d \in 1..Len(batch_outputs) |->
                              Get(batch_outputs[d])]
                   ld == UpdateLocalData(local_data, out)
               IN  _compute_residual(_current_input_couplings(local_data),
                                     _current_input_couplings(ld), TRUE, ld)
            /\ evals_used' = evals_used + 1
            /\ jpc' = "check"
            /\ UNCHANGED status
    /\ UNCHANGED << par_vars, lin_vars, con_vars, der_vars, other_vars,
                    config_vars, cache_inputs,
                    cache_outputs, disc_last, pc, warned,
                    jacobi_disciplines, n_workers, snapshot, batch_queue,
                    batch_running, batch_outputs, batch_raised, logged,
                    downstream_n_calls >>

\* The loop test of the Jacobi solver: a new iteration, or the end of the
\* run, after which the downstream discipline is executed.
JacobiCheck ==
    /\ jpc = "check"
    /\ warned' = (warned \/ LogsWarning)
    /\ IF _stop_criterion_is_reached
       THEN /\ status' = IF residual_is_small THEN "CONVERGED"
                         ELSE "MAX_ITER_REACHED"
            /\ jpc' = "downstream"
            /\ cache_inputs' = [n \in Names |->
                    IF n = "x" THEN local_data[n]
                    ELSE IF n \in get_input_data_names
                         THEN Some(default_inputs(n)) ELSE None]
            /\ cache_outputs' = [n \in Names |->
                    IF n \in get_output_data_names THEN local_data[n] ELSE None]
       ELSE /\ jpc' = "dispatch"
            /\ UNCHANGED << status, cache_inputs, cache_outputs >>
    /\ UNCHANGED << par_vars, lin_vars, con_vars, der_vars, other_vars,
                    config_vars,
                    residual_history, _starting_indices, _scaling_data, _current_iter,
                    normed_residual, local_data, disc_last, pc, evals_used,
                    jacobi_disciplines, n_workers, snapshot, batch_queue,
                    batch_running, batch_outputs, batch_raised, logged,
                    downstream_n_calls >>

\* The discipline downstream of the solver is executed on the sample.
Downstream ==
    /\ jpc = "downstream"
    /\ downstream_n_calls' = downstream_n_calls + 1
    /\ jpc' = "sampling"
    /\ UNCHANGED << par_vars, lin_vars, con_vars, der_vars, other_vars,
                    config_vars, mda_vars,
                    jacobi_disciplines, n_workers, snapshot, batch_queue,
                    batch_running, batch_outputs, batch_raised, logged >>

\* MDA.__init__: the checks made at the end of the construction, in their
\* order; the first exception raised ends the construction.
Construct ==
    /\ cpc = "constructing"
    /\ LET consistency == _check_consistency(mda_disciplines)
           first_raised ==
               IF ~IsNone(consistency.raised) THEN consistency.raised
               ELSE IF ~IsNone(check_linear_solver_options)
                    THEN check_linear_solver_options
               ELSE _check_coupling_types(mda_disciplines)
       IN  /\ warnings' = consistency.warnings
           /\ raised' = first_raised
           /\ built_couplings' = Some(BuildCouplings(mda_disciplines))
           /\ cpc' = IF IsNone(first_raised) THEN "constructed" ELSE "raised"
    /\ UNCHANGED << par_vars, lin_vars, jacobi_vars, der_vars, other_vars,
                    config_vars,
                    mda_vars, mda_disciplines, not_array_names, linear_solver_options >>

JacobiNext ==
    \/ SampleExecute \/ JacobiDispatch \/ JacobiGet \/ JacobiPut
    \/ JacobiUpdate \/ JacobiCheck \/ Downstream

\* mda.lin_cache_tol_fact = fact, by the caller of a constructed solver.
SetLinCacheTolFact ==
    /\ dpc # "none"
    /\ pc = "idle"
    /\ \E fact \in LinCacheTolFacts \ {lin_cache_tol_fact} :
          lin_cache_tol_fact' = fact
    /\ UNCHANGED << config_vars, mda_vars, par_vars, lin_vars, jacobi_vars,
                    con_vars, other_vars, use_lu_fact, residual_variables, assembly_call,
                    cached_point, lu_fact, lu_used, jac, dpc >>

\* JacobianAssembly.total_derivatives(in_data, ..., use_lu_fact,
\* exec_cache_tol, execute, ...): the disciplines are linearized at the
\* requested point, or their cached linearization is taken; the coupled
\* Jacobian is assembled at that point; with use_lu_fact the linear systems
\* are solved with the stored factorization when it is that of this Jacobian,
\* and with a new one, which is stored, otherwise.  The call is recorded with
\* what the assembly found: whether the disciplines were executed again, and
\* the factorization that was stored.
total_derivatives(call) ==
    LET served == CacheServes(call.in_data, call.exec_cache_tol,
                              call.execute)
        at == LinearizationPoint(call.in_data, call.exec_cache_tol,
                                 call.execute)
        reuse == call.use_lu_fact /\ LuIsValid(at) IN
    /\ assembly_call' = Some([call EXCEPT !.reexecuted = ~served,
                                         !.lu_fact_before = lu_fact])
    /\ cached_point' = Some(at)
    /\ lu_fact' = IF call.use_lu_fact /\ ~reuse THEN Some(at) ELSE lu_fact
    /\ lu_used' = IF call.use_lu_fact
                  THEN (IF reuse THEN lu_fact ELSE Some(at))
                  ELSE None
    /\ jac' = Some([at |-> at, couplings |-> call.couplings_adjoint])

\* The body of MDA._compute_jacobian(inputs, outputs).
ComputeJacobian(diff_inputs, diff_outputs) ==
    LET exec_cache_tol == exec_cache_tol_of(lin_cache_tol_fact, tolerance)
    IN  IF ~IsNone(check_linear_solver_options)
        THEN /\ dpc' = "raised"
             /\ UNCHANGED << assembly_call, cached_point, lu_fact,
                             lu_used, jac >>
        ELSE /\ total_derivatives(
                   [in_data |-> RequestedPoint(local_data),
                    outputs |-> diff_outputs,
                    inputs |-> diff_inputs,
                    couplings_adjoint |->
                        couplings_adjoint_of(mda_all_couplings,
                                             residual_variables),
                    use_lu_fact |-> use_lu_fact,
                    exec_cache_tol |-> exec_cache_tol,
                    execute |-> ExecuteFlag(exec_cache_tol),
                    reexecuted |-> FALSE,
                    lu_fact_before |-> None])
             /\ dpc' = "computed"

\* MDA._compute_jacobian(), called with its default arguments after a run of
\* the solver.
_compute_jacobian ==
    /\ dpc # "none"
    /\ pc = "idle"
    /\ status \in {"CONVERGED", "MAX_ITER_REACHED"}
    /\ ComputeJacobian(None, None)
    /\ UNCHANGED << config_vars, mda_vars, par_vars, lin_vars, jacobi_vars,
                    con_vars, other_vars, lin_cache_tol_fact, use_lu_fact,
                    residual_variables >>

\* MDODiscipline.linearize(compute_all_jacobians) on the solver after a run,
\* for any outputs that its caller marked as differentiated: the inputs and
\* the outputs to differentiate are retrieved and the Jacobian is computed
\* for them.
mda_linearize ==
    /\ dpc # "none"
    /\ pc = "idle"
    /\ status \in {"CONVERGED", "MAX_ITER_REACHED"}
    /\ \E compute_all_jacobians \in BOOLEAN,
          differentiated \in DifferentiatedOutputs :
          LET inouts == _retrieve_diff_inouts(compute_all_jacobians, {"x"},
                                              differentiated)
          IN  ComputeJacobian(Some(inouts[1]), Some(inouts[2]))
    /\ UNCHANGED << config_vars, mda_vars, par_vars, lin_vars, jacobi_vars,
                    con_vars, other_vars, lin_cache_tol_fact, use_lu_fact,
                    residual_variables >>

\* The acceleration step of an iteration of the Jacobi solver: the next
\* iterate is the accelerated one, or the last output of the disciplines.
Accelerate ==
    /\ apc = "iterating"
    /\ LET w == Get(window)
       IN  IF acceleration = "secant"
           THEN /\ acc_result' = None
                /\ next_iterate' =
                      Some(_compute_secant_acc(w.dxn, w.dxn_1, w.cgn, w.cgn_1))
           ELSE LET result == _minimize_2md(w.dxn, w.dxn_1, w.dxn_2)
                IN  /\ acc_result' = Some(result)
                    /\ next_iterate' =
                          Some(_compute_m2d_acc(result, w.cgn, w.cgn_1))
    /\ apc' = "continued"
    /\ UNCHANGED << config_vars, mda_vars, par_vars, lin_vars, jacobi_vars,
                    con_vars, der_vars, uid_vars, plot_vars, lib_vars,
                    acceleration, window >>

\* The acceleration of the iterates alone.
AccSpec == InitAcceleration /\ [][Accelerate]_vars

\* What a step of generate_uid cannot reach.
outside_uid ==
    << config_vars, mda_vars, par_vars, lin_vars, jacobi_vars, con_vars,
       der_vars, acc_vars, plot_vars, lib_vars, folders_iter, n_dirs >>

\* generate_uid with UUID: the identifier is the last field of uuid1, the
\* node of the host, and no lock is taken.
UuidCall(p) ==
    /\ folders_iter = "UUID"
    /\ upc[p] = "idle"
    /\ returned' = [returned EXCEPT ![p] = Some(<< "node" >>)]
    /\ upc' = [upc EXCEPT ![p] = "done"]
    /\ UNCHANGED << outside_uid, lock, _counter, local_value, lock_order >>

\* with self.__lock: the caller enters when the lock is free.
AcquireLock(p) ==
    /\ folders_iter = "NUMBERED"
    /\ upc[p] = "idle"
    /\ LockIsFree
    /\ lock' = p
    /\ lock_order' = Append(lock_order, p)
    /\ upc' = [upc EXCEPT ![p] = "locked"]
    /\ UNCHANGED << outside_uid, _counter, local_value, returned >>

\* self._counter.value += 1: the value is read from the shared counter...
ReadCounter(p) ==
    /\ upc[p] = "locked"
    /\ local_value' = [local_value EXCEPT ![p] = _counter]
    /\ upc' = [upc EXCEPT ![p] = "read"]
    /\ UNCHANGED << outside_uid, lock, _counter, lock_order, returned >>

\* ... and the value plus one is written to it.
WriteCounter(p) ==
    /\ upc[p] = "read"
    /\ _counter' = local_value[p] + 1
    /\ upc' = [upc EXCEPT ![p] = "written"]
    /\ UNCHANGED << outside_uid, lock, local_value, lock_order, returned >>

\* return str(self._counter.value): the counter is read again, and the lock
\* is released on leaving the with block.
ReturnUid(p) ==
    /\ upc[p] = "written"
    /\ returned' = [returned EXCEPT ![p] = Some(str(_counter))]
    /\ lock' = IF lock = p THEN 0 ELSE lock
    /\ upc' = [upc EXCEPT ![p] = "done"]
    /\ UNCHANGED << outside_uid, _counter, local_value, lock_order >>

UidNext ==
    \E p \in Callers :
        \/ UuidCall(p) \/ AcquireLock(p) \/ ReadCounter(p)
        \/ WriteCounter(p) \/ ReturnUid(p)

\* The concurrent calls of generate_uid alone.
UidSpec == InitUid /\ [][UidNext]_vars

\* The runs of a solver instance alone.
SolverNext == Execute \/ RunStart \/ Iterate \/ Probe \/ CheckStop

\* The values of n_iterations that plot_residual_history is called with.
NIterations == {None} \cup {Some(n) : n \in 0..(MaxEvals + 1)}

\* colors[index] = "red" raises IndexError for an index that is not below
\* the length of colors (the indices are never negative).
ColorsRaise(n_iterations) ==
    \E k \in 1..Len(_starting_indices) : _starting_indices[k] >= n_iterations

\* colors = ["black"] * n_iterations, then colors[index] = "red" for every
\* run-start index: the sequence holds colors[0] first.
PlotColors(n_iterations) ==
    IF ColorsRaise(n_iterations)
    THEN [exception |-> Some("IndexError"), colors |-> << >>]
    ELSE [exception |-> None,
          colors |-> [i \in 1..n_iterations |->
             IF \E k \in 1..Len(_starting_indices) :
                    _starting_indices[k] = i - 1
             THEN "red" ELSE "black"]]

\* MDA.plot_residual_history(n_iterations=requested), between two runs.
plot_residual_history ==
    /\ pc = "idle"
    /\ \E requested \in NIterations :
          LET history_length == Len(residual_history)
              asked == IF IsNone(requested) \/ requested = Some(0)
                       THEN history_length ELSE Get(requested)
              n_iterations == IF asked > history_length THEN history_length
                              ELSE asked
              drawn == PlotColors(n_iterations)
          IN  figure' = Some(
                [requested |-> requested,
                 n_iterations |-> n_iterations,
                 exception |-> drawn.exception,
                 colors |-> drawn.colors,
                 residuals |-> IF IsNone(drawn.exception)
                               THEN SubSeq(residual_history, 1, n_iterations)
                               ELSE << >>])
    /\ UNCHANGED << config_vars, mda_vars, par_vars, lin_vars, jacobi_vars,
                    con_vars, der_vars, acc_vars, uid_vars, lib_vars >>

PlotNext == SolverNext \/ plot_residual_history

\* The runs of a solver instance and the plots of its residual history.
PlotSpec == InitPlot /\ [][PlotNext]_vars

\* What a step of AlgoLib.execute cannot reach.
outside_lib ==
    << config_vars, mda_vars, par_vars, lin_vars, jacobi_vars, con_vars,
       der_vars, acc_vars, uid_vars, plot_vars >>

\* A call made by execute, with the name of the algorithm it was given.
CallOf(step, name) == [step |-> step, algo_name |-> name]

\* AlgoLib.execute(problem, algo_name, **options), up to the test of the
\* name: the problem and the name are stored, and ValueError is raised when
\* no name is known.
AlgoExecute ==
    /\ lpc = "idle"
    /\ n_executes < MaxExecutes
    /\ n_executes' = n_executes + 1
    /\ \E pb \in Problems, name \in {None} \cup {Some(a) : a \in AlgoNames},
          opts \in OptionSets :
          /\ problem' = Some(pb)
          /\ algo_arg' = name
          /\ algo_options' = opts
          /\ algo_name' = IF ~IsNone(name) THEN name ELSE algo_name
    /\ calls' = << >>
    /\ algo_warnings' = {}
    /\ algo_result' = None
    /\ IF IsNone(algo_name')
       THEN algo_exception' = Some("ValueError") /\ lpc' = "idle"
       ELSE algo_exception' = None /\ lpc' = "_check_algorithm"
    /\ UNCHANGED << outside_lib, internal_algo_name >>

\* self._check_algorithm(self.algo_name, problem).
_check_algorithm ==
    /\ lpc = "_check_algorithm"
    /\ calls' = Append(calls, CallOf("_check_algorithm", algo_name))
    /\ IF Get(algo_name) \notin DOMAIN lib_dict
       THEN algo_exception' = Some("KeyError") /\ lpc' = "idle"
       ELSE IF ~Get(problem).suited
       THEN algo_exception' = Some("ValueError") /\ lpc' = "idle"
       ELSE algo_exception' = None /\ lpc' = "_update_algorithm_options"
    /\ UNCHANGED << outside_lib, algo_name, internal_algo_name, problem,
                    algo_arg, algo_options, algo_warnings, algo_result,
                    n_executes >>

\* options = self._update_algorithm_options(**options), with a grammar file
\* of the algorithm, and the internal name of the algorithm.
_update_algorithm_options ==
    /\ lpc = "_update_algorithm_options"
    /\ calls' = Append(calls, CallOf("_update_algorithm_options", algo_name))
    /\ algo_warnings' = {o \in algo_options : ~driver_has_option(o)}
    /\ algo_options' = _get_options(algo_options)
    /\ internal_algo_name' = Some(lib_dict[Get(algo_name)].internal_algo_name)
    /\ lpc' = "problem.check"
    /\ UNCHANGED << outside_lib, algo_name, problem, algo_arg,
                    algo_exception, algo_result, n_executes >>

\* problem.check(), which raises for a problem that is not valid.
problem_check ==
    /\ lpc = "problem.check"
    /\ calls' = Append(calls, CallOf("problem.check", None))
    /\ IF Get(problem).valid
       THEN algo_exception' = None /\ lpc' = "_pre_run"
       ELSE algo_exception' = Some("ValueError") /\ lpc' = "idle"
    /\ UNCHANGED << outside_lib, algo_name, internal_algo_name, problem,
                    algo_arg, algo_options, algo_warnings, algo_result,
                    n_executes >>

\* self._pre_run(problem, self.algo_name, **options).
_pre_run ==
    /\ lpc = "_pre_run"
    /\ calls' = Append(calls, CallOf("_pre_run", algo_name))
    /\ lpc' = "_run"
    /\ UNCHANGED << outside_lib, algo_name, internal_algo_name, problem,
                    algo_arg, algo_options, algo_warnings, algo_exception,
                    algo_result, n_executes >>

\* result = self._run(**options).
_run ==
    /\ lpc = "_run"
    /\ calls' = Append(calls, CallOf("_run", None))
    /\ \E solution \in {0, 1} : algo_result' = Some(solution)
    /\ lpc' = "_post_run"
    /\ UNCHANGED << outside_lib, algo_name, internal_algo_name, problem,
                    algo_arg, algo_options, algo_warnings, algo_exception,
                    n_executes >>

\* self._post_run(problem, algo_name, result, **options), with the argument
\* algo_name of execute, and the return of the result.
_post_run ==
    /\ lpc = "_post_run"
    /\ calls' = Append(calls, CallOf("_post_run", algo_arg))
    /\ lpc' = "idle"
    /\ UNCHANGED << outside_lib, algo_name, internal_algo_name, problem,
                    algo_arg, algo_options, algo_warnings, algo_exception,
                    algo_result, n_executes >>

AlgoLibNext ==
    \/ AlgoExecute \/ _check_algorithm \/ _update_algorithm_options
    \/ problem_check \/ _pre_run \/ _run \/ _post_run

\* The calls of execute of an algorithm library alone.
AlgoLibSpec == InitAlgoLib /\ [][AlgoLibNext]_vars

Next ==
    \/ AlgoLibNext
    \/ plot_residual_history
    \/ UidNext
    \/ Accelerate
    \/ Execute \/ RunStart \/ Iterate \/ Probe \/ CheckStop
    \/ ParNext
    \/ LinFinish
    \/ JacobiNext
    \/ Construct
    \/ SetLinCacheTolFact \/ _compute_jacobian \/ mda_linearize

Spec == Init /\ [][Next]_vars

SolverSpec == InitSolver /\ [][SolverNext]_vars

\* The runs of a solver instance over a chain of disciplines alone.
ChainSpec == InitChain /\ [][SolverNext]_vars

\* The parallel execution alone.
ParSpec == InitParallel /\ [][ParNext]_vars

\* The parallel linearization alone.
LinSpec == InitLinearization /\ [][LinNext]_vars

\* The Jacobi solver in its sampling loop alone.
JacobiSpec == InitJacobi /\ [][JacobiNext]_vars

\* The construction of a solver alone.
ConstructionSpec == InitConstruction /\ [][Construct]_vars

\* The construction of a solver over a graph of four disciplines alone.
GraphSpec == InitGraph /\ [][Construct]_vars

\* The total derivatives of a solver, between its runs, alone.
DerNext ==
    \/ Execute \/ RunStart \/ Iterate \/ Probe \/ CheckStop
    \/ SetLinCacheTolFact \/ _compute_jacobian

DerSpec == InitDerivatives /\ [][DerNext]_vars

\* The runs of a solver and its linearizations, alone.
LinearizeNext == SolverNext \/ mda_linearize

LinearizeSpec == InitLinearize /\ [][LinearizeNext]_vars

\* ------------------------------------------------------------------ claims
Finished == status \in {"CONVERGED", "MAX_ITER_REACHED"}

\* C1: at the loop test the run stops exactly when the normed residual is at
\* most the tolerance or the iteration count of the run has reached
\* max_mda_iter; a stop by convergence ends CONVERGED, a forced stop ends
\* MAX_ITER_REACHED with a warning logged and the run returning its outputs
\* as any other run does.
C1_StopCriterion ==
    [][pc = "check" =>
        LET small == normed_residual[1] * tolerance[2]
                        <= tolerance[1] * normed_residual[2]
            forced == _current_iter >= max_mda_iter
        IN  /\ (pc' = "idle") <=> (small \/ forced)
            /\ (pc' # "idle") => (pc' = "evaluate" /\ status' = "ITERATING")
            /\ small => (status' = "CONVERGED" /\ warned' = warned)
            /\ (forced /\ ~small) =>
                  /\ status' = "MAX_ITER_REACHED"
                  /\ warned'
                  /\ cache_outputs'[RESIDUALS_NORM] = << << normed_residual >> >>
            /\ (~forced /\ ~small) => warned' = warned]_vars

C1_Witness ==
    /\ status = "MAX_ITER_REACHED"
    /\ pc = "idle"
    /\ warned
    /\ _current_iter = max_mda_iter
    /\ max_mda_iter = 2

\* C2: a run goes NOT_STARTED (or a finished state) -> ITERATING ->
\* CONVERGED or MAX_ITER_REACHED and never holds more than max_mda_iter
\* stored iterations, whatever the disciplines return: every iteration
\* counts one, is followed by the loop test, and the loop iterates again
\* only below the cap.
C2_Bounded ==
    /\ _current_iter <= max_mda_iter
    /\ (pc = "evaluate") => (_current_iter < max_mda_iter)
    /\ (pc \in {"idle", "none"}) <=> (status # "ITERATING")
    /\ Finished => (1 <= _current_iter)

C2_Machine ==
    [][/\ status' # status =>
            \/ (status # "ITERATING" /\ status' = "ITERATING")
            \/ (status = "ITERATING"
                    /\ status' \in {"CONVERGED", "MAX_ITER_REACHED"})
       /\ (pc = "evaluate" /\ pc' # "evaluate") =>
            (pc' = "check" /\ _current_iter' = _current_iter + 1)
       /\ (pc = "check") => (pc' \in {"evaluate", "idle"})
       /\ (status = "ITERATING") => (_current_iter' >= _current_iter)
      ]_vars

C3_ScalingDataFrozen ==
    [][Len(_scaling_data) > 0 => _scaling_data' = _scaling_data]_vars

C3_Witness ==
    /\ scaling = "initial_residual_norm"
    /\ _current_iter = 2
    /\ Len(_scaling_data) > 0
    /\ normed_residual = << 1, 2 >>

\* C4: under INITIAL_RESIDUAL_NORM the first normed residual stored by a run
\* is 1, or 0 when the initial residual of that run is zero, in every run.
C4_FirstResidualOfEachRun ==
    (scaling = "initial_residual_norm" /\ pc = "check" /\ _current_iter = 1)
        => (normed_residual = << 1, 1 >> \/ normed_residual = << 0, 1 >>)

\* C5: with reset_history_each_run False the history is append-only: a
\* stored residual computation appends exactly one entry, the normed
\* residual, and every other step leaves the history as it is.
C5_AppendOnly ==
    [][~reset_history_each_run =>
        IF pc = "evaluate" /\ pc' = "check"
        THEN /\ Len(residual_history') = Len(residual_history) + 1
             /\ SubSeq(residual_history', 1, Len(residual_history))
                    = residual_history
             /\ residual_history'[Len(residual_history')] = normed_residual'
        ELSE residual_history' = residual_history]_vars

C5_Witness ==
    /\ ~reset_history_each_run
    /\ Len(residual_history) = 3
    /\ Len(_starting_indices) = 2
    /\ residual_history[1] # residual_history[3]

\* C6: the run-start markers are valid positions of the history in strictly
\* increasing order, the last one is the position of the first residual
\* stored by the current run and the iteration counter is the number of
\* entries that run appended; a marker is recorded by the first stored
\* residual of a run and by no other step.
C6_Markers ==
    /\ \A k \in 1..Len(_starting_indices) :
          /\ 0 <= _starting_indices[k]
          /\ _starting_indices[k] < Len(residual_history)
    /\ \A k \in 1..(Len(_starting_indices) - 1) :
          _starting_indices[k] < _starting_indices[k + 1]
    /\ (_current_iter > 0) =>
          /\ Len(_starting_indices) > 0
          /\ _starting_indices[Len(_starting_indices)]
                = Len(residual_history) - _current_iter

C6_MarkerSteps ==
    [][IF pc = "evaluate" /\ pc' = "check" /\ _current_iter = 0
       THEN /\ Len(_starting_indices') >= 1
            /\ _starting_indices'[Len(_starting_indices')]
                  = Len(residual_history') - 1
            /\ \/ /\ ~reset_history_each_run
                  /\ SubSeq(_starting_indices', 1, Len(_starting_indices') - 1)
                        = _starting_indices
               \/ /\ reset_history_each_run
                  /\ Len(_starting_indices') = 1
       ELSE \/ _starting_indices' = _starting_indices
            \/ /\ reset_history_each_run
               /\ _current_iter = 0
               /\ _starting_indices' = << >>]_vars

C6_StartingIndices == []C6_Markers /\ C6_MarkerSteps

C6_Witness ==
    /\ ~reset_history_each_run
    /\ _starting_indices = << 0, 1 >>
    /\ Len(residual_history) = 3
    /\ _current_iter = 2

\* C7: with reset_history_each_run True, the first stored residual of a run
\* restarts the history, so that after any run the history holds only the
\* residuals of that run and the run-start markers are [0].
C7_AfterRun ==
    (reset_history_each_run /\ Finished) =>
        /\ _starting_indices = << 0 >>
        /\ Len(residual_history) = _current_iter

C7_FirstStored ==
    [][(reset_history_each_run /\ pc = "evaluate" /\ pc' = "check"
            /\ _current_iter = 0) =>
        /\ residual_history' = << normed_residual' >>
        /\ _starting_indices' = << 0 >>]_vars

C7_ResetEachRun == []C7_AfterRun /\ C7_FirstStored

C7_Witness ==
    /\ reset_history_each_run
    /\ Finished
    /\ evals_used = 3
    /\ Len(residual_history) = 1

\* C8: the entry of a run with warm_start sets every input coupling held by
\* the outputs of the previous run to that value and changes no other entry
\* of the local data (none when there are no previous outputs); without
\* warm_start the run starts from the default couplings.
C8_WarmStart ==
    [][pc = "warm_start" =>
        \A n \in Names :
            IF warm_start /\ n \in coupling_structure.strong
                /\ Len(cache_outputs[n]) > 0
            THEN local_data'[n] = cache_outputs[n]
            ELSE /\ local_data'[n] = local_data[n]
                 /\ (n \in coupling_structure.strong) =>
                        local_data'[n]
                            = << [i \in 1..coupling_structure.size[n] |-> 0] >>
      ]_vars

C8_Witness ==
    /\ warm_start
    /\ pc = "evaluate"
    /\ _current_iter = 0
    /\ Len(cache_outputs["y1"]) > 0
    /\ local_data["y1"] = cache_outputs["y1"]
    /\ \E i \in 1..Len(local_data["y1"][1]) : local_data["y1"][1][i] # 0
    /\ Len(local_data[RESIDUALS_NORM]) = 0

\* The first iteration of a warm-started run that follows a run made with
\* the same inputs.
SecondCallFirstIteration ==
    /\ warm_start
    /\ pc = "check"
    /\ _current_iter = 1
    /\ Len(cache_outputs[RESIDUALS_NORM]) > 0
    /\ cache_inputs["x"] = local_data["x"]

\* C9 as stated: the second of two executions with identical inputs and
\* warm_start has a zero residual at its first iteration.
C9_ZeroResidualAlways ==
    SecondCallFirstIteration => normed_residual[1] = 0

\* C9 amended: it has when the first execution ended with a zero residual,
\* that is at a fixed point of the disciplines.
C9_ZeroResidualAtFixedPoint ==
    (SecondCallFirstIteration /\ cache_outputs[RESIDUALS_NORM][1][1][1] = 0)
        => normed_residual[1] = 0

C9_Witness ==
    /\ SecondCallFirstIteration
    /\ cache_outputs[RESIDUALS_NORM][1][1][1] = 0
    /\ normed_residual[1] = 0
    /\ \E i \in 1..Len(local_data["y1"][1]) : local_data["y1"][1][i] # 0

\* C10: a batch in which no call raises an exception of a type listed in
\* exceptions_to_re_raise returns to the caller without raising; each call
\* was made, the slot of a call that raised holds None and the slot of any
\* other call holds the result of its worker on its input.
C10_FailedSlotIsNone ==
    LET kind(i) == IF Len(workers) > 1 THEN workers[i] ELSE workers[1]
        fails(i) == kind(i) = "function_raising_exception"
                        \/ (kind(i) = "f" /\ inputs[i] = 0)
        raised_type(i) == IF kind(i) = "f" THEN "ValueError" ELSE "Exception"
        re_raised == \E i \in 1..Len(inputs) :
                        fails(i) /\ raised_type(i) \in exceptions_to_re_raise
    IN  /\ (ppc = "raised") => re_raised
        /\ (ppc = "returned") =>
              /\ ~re_raised
              /\ Len(ordered_outputs) = Len(inputs)
              /\ got_n_outs = Len(inputs)
              /\ \A i \in 1..Len(inputs) :
                    IF fails(i) THEN ordered_outputs[i] = << >>
                    ELSE ordered_outputs[i] = << inputs[i] + 1 >>
        /\ (ppc = "collecting" /\ ~re_raised) => ~stop

C10_Witness ==
    /\ ppc = "returned"
    /\ exceptions_to_re_raise = {"RuntimeError"}
    /\ ordered_outputs[1] = << 2 >>
    /\ ordered_outputs[2] = << >>
    /\ ordered_outputs[3] = << 2 >>
    /\ inputs[2] = 0
    /\ workers = << "f" >>

\* C11: a batch ends by raising to the caller exactly when the result
\* collected last is the exception of one of its calls and the type of this
\* exception is listed in exceptions_to_re_raise; the exception raised is this
\* one.  A batch with such a call never returns a result list, and the
\* collection of an exception of any other type does not end the batch.
C11_Outcome ==
    LET kind(i) == IF Len(workers) > 1 THEN workers[i] ELSE workers[1]
        exception(i) ==
            IF kind(i) = "function_raising_exception" THEN "Exception"
            ELSE IF inputs[i] = 0 THEN "ValueError" ELSE ""
        listed(i) == exception(i) \in exceptions_to_re_raise
    IN  /\ (ppc = "raised") =>
              /\ Len(output) = 1
              /\ ~output[1].ok
              /\ output[1].exc \in exceptions_to_re_raise
              /\ \E i \in 1..Len(inputs) :
                    listed(i) /\ output[1].exc = exception(i)
        /\ (ppc = "returned") => (\A i \in 1..Len(inputs) : ~listed(i))

C11_Steps ==
    [][/\ (ppc = "collecting" /\ ppc' # "collecting") =>
              (ppc' = (IF stop THEN "raised" ELSE "returned")
                  /\ output' = output)
       /\ (ppc = "collecting" /\ got_n_outs' = got_n_outs + 1) =>
              LET item == Head(queue_out)
              IN  stop' = (~item.output.ok
                            /\ item.output.exc \in exceptions_to_re_raise)
      ]_vars

C11_ReRaise == []C11_Outcome /\ C11_Steps

C11_Witness ==
    /\ ppc = "raised"
    /\ exceptions_to_re_raise = {"ValueError"}
    /\ workers = << "f" >>
    /\ inputs[1] = 1
    /\ inputs[2] = 0
    /\ ordered_outputs[1] = << 2 >>
    /\ output[1].exc = "ValueError"

\* C12: the result list of a batch has one slot per input and a slot never
\* holds anything but the result of the call made on the input of its own
\* index, in whatever order the calls complete; when the batch returns, the
\* slot of every call that succeeded is filled.  It is so with one worker
\* per input and with a single worker serving every input.
C12_Slots ==
    LET kind(i) == IF Len(workers) > 1 THEN workers[i] ELSE workers[1]
        succeeds(i) == kind(i) = "f" /\ inputs[i] # 0
    IN  (ppc \in {"collecting", "returned", "raised"}) =>
          /\ Len(ordered_outputs) = Len(inputs)
          /\ \A i \in 1..Len(inputs) :
                /\ (Len(ordered_outputs[i]) > 0) =>
                      (succeeds(i) /\ ordered_outputs[i] = << inputs[i] + 1 >>)
                /\ (ppc = "returned" /\ succeeds(i)) =>
                      Len(ordered_outputs[i]) > 0

C12_Steps ==
    [][(ppc = "collecting" /\ got_n_outs' = got_n_outs + 1) =>
          LET item == Head(queue_out)
          IN  \A i \in 1..Len(inputs) :
                 (i # item.index) => ordered_outputs'[i] = ordered_outputs[i]
      ]_vars

C12_OneResultPerInput == []C12_Slots /\ C12_Steps

\* The result of the second call is collected before the result of the
\* first, and one worker serves every input.
C12_Witness ==
    /\ ppc = "collecting"
    /\ Len(workers) = 1
    /\ workers[1] = "f"
    /\ inputs[1] = 1
    /\ inputs[2] = 1
    /\ inputs[3] = 0
    /\ ordered_outputs[2] = << 2 >>
    /\ ordered_outputs[1] = << >>
    /\ got_n_outs = 1

\* C13: when the linearization of one of several disciplines fails, so that
\* its slot of the batch holds None, DiscParallelLinearization.execute
\* returns: the local data of the failed discipline are as before the call
\* and the local data and the Jacobian of the other disciplines are those of
\* their slots.
C13_FailedLinearizationIsolated ==
    (/\ Len(disciplines) > 1
     /\ ppc \in {"lin_returned", "lin_raised"}
     /\ NoneSlots # {})
        => /\ ppc = "lin_returned"
           /\ \A i \in 1..Len(disciplines) :
                 IF i \in NoneSlots
                 THEN disc_attrs[i].local_data = None
                 ELSE disc_attrs[i] = AttributesOf(ordered_outputs[i])

\* C14: after the parallel linearization of N disciplines on N inputs, the
\* i-th returned Jacobian and the attribute jac of the i-th discipline are
\* the Jacobian of the discipline i at the input i.
C14_SameAsOneByOne ==
    (/\ Len(disciplines) > 1
     /\ Len(disciplines) = Len(inputs)
     /\ ppc = "lin_returned")
        => \A i \in 1..Len(disciplines) :
              /\ lin_outputs[i] = JacobianAt(disciplines[i], inputs[i])
              /\ disc_attrs[i].jac = Some(JacobianAt(disciplines[i], inputs[i]))

\* The iterate of a sequential Jacobi solver after k iterations on x: every
\* discipline is evaluated on the iterate of the iteration before.
RECURSIVE JacobiSequential(_, _)
JacobiSequential(x, k) ==
    IF k = 0 THEN << 0, 0 >>
    ELSE LET y == JacobiSequential(x, k - 1)
         IN  << (x + y[2] + 1) % 2, (x + y[1]) % 2 >>

\* C15: after every iteration of the Jacobi solver the couplings are those
\* of the sequential Jacobi iteration, with one worker or two and in any
\* order of completion of the disciplines; while a batch runs, nothing but
\* the batch changes: the iterate, the residual history and the snapshot that
\* the disciplines read stay as they are until the controlling thread
\* updates them all at once.
C15_Outputs ==
    (jpc \in {"check", "downstream"}) =>
        << Get(local_data["y1"])[1], Get(local_data["y2"])[1] >>
            = JacobiSequential(Get(local_data["x"])[1], _current_iter)

C15_Steps ==
    [][(jpc = "batch" /\ jpc' = "batch") =>
          /\ local_data' = local_data
          /\ snapshot' = snapshot
          /\ residual_history' = residual_history
          /\ _current_iter' = _current_iter
      ]_vars

C15_OrderIndependent == []C15_Outputs /\ C15_Steps

\* In the second iteration of a run with two workers, the second discipline
\* has returned and the first has not.
C15_Witness ==
    /\ jpc = "batch"
    /\ n_workers = 2
    /\ _current_iter = 1
    /\ 1 \in batch_running
    /\ batch_outputs[1] = None
    /\ batch_outputs[2] = Some(1)
    /\ Get(snapshot["y1"])[1] = 1

\* C16 as stated: whenever a discipline raises inside a batch of the Jacobi
\* solver, the error is logged, the downstream discipline is not executed
\* and the sampling loop does not crash.
C16_FailureNeverCrashes ==
    (status = "FAILED") => (logged # {} /\ jpc = "sampling")

\* C16 amended: a ValueError raised inside a batch is logged and the sampling
\* loop goes on to its next sample; an exception of another type is logged
\* and not re-raised, and the sampling loop ends with InvalidDataError.  In
\* both cases the downstream discipline is not executed for the sample: it
\* is executed only after a run of the solver that ended.
C16_Outcome ==
    (status = "FAILED") =>
        /\ logged # {}
        /\ jpc \in {"sampling", "raised"}
        /\ (jpc = "sampling") <=> (jacobi_disciplines[1] = "f_sellar_1")
        /\ (jpc = "raised") <=> (jacobi_disciplines[1] = "func")
        /\ Get(local_data["x"])[1] = 0

C16_Steps ==
    [][/\ (downstream_n_calls' # downstream_n_calls) =>
             /\ status \in {"CONVERGED", "MAX_ITER_REACHED"}
             /\ downstream_n_calls' = downstream_n_calls + 1
       /\ (jpc = "batch" /\ jpc' # "batch") =>
             LET raises == jacobi_disciplines[1] \in {"f_sellar_1", "func"}
                              /\ Get(local_data["x"])[1] = 0
             IN  /\ raises <=> (status' = "FAILED")
                 /\ raises => (jpc' # "check" /\ _current_iter' = _current_iter)
      ]_vars

C16_FailureHandled == []C16_Outcome /\ C16_Steps

\* After a first sample that ran to its end, a second sample has failed with
\* ValueError: the downstream discipline was executed once.
C16_Witness ==
    /\ status = "FAILED"
    /\ jpc = "sampling"
    /\ jacobi_disciplines[1] = "f_sellar_1"
    /\ logged = {"ValueError"}
    /\ downstream_n_calls = 1
    /\ Len(_starting_indices) = 1

\* C17: the construction of a solver over disciplines of which two declare
\* the same output does not end with a constructed solver: it raises.
C17_DuplicateOutputsRejected ==
    (\E d, e \in 1..Len(mda_disciplines) :
        d # e /\ mda_disciplines[d].outputs \cap mda_disciplines[e].outputs # {})
        => cpc # "constructed"

\* C18: the construction of a solver with a discipline that consumes one of
\* its own outputs and belongs to a strongly coupled group of several
\* disciplines does not end with a constructed solver: it raises.
C18_SelfCoupledInGroupRejected ==
    (\E d \in 1..Len(mda_disciplines) :
        /\ mda_disciplines[d].inputs \cap mda_disciplines[d].outputs # {}
        /\ \E e \in 1..Len(mda_disciplines) :
              /\ e # d
              /\ mda_disciplines[d].outputs \cap mda_disciplines[e].inputs # {}
              /\ mda_disciplines[e].outputs \cap mda_disciplines[d].inputs # {})
        => cpc # "constructed"

\* C19: lin_cache_tol_fact is 0 after the construction and only its caller
\* changes it; every call of the total derivatives passes an execution cache
\* tolerance that is zero exactly when lin_cache_tol_fact * tolerance is, and
\* execute=True exactly in that case: it asks to skip the execution of the
\* disciplines only when that product is not zero.
C19_Steps ==
    [][/\ (lin_cache_tol_fact' # lin_cache_tol_fact) =>
             /\ pc = "idle"
             /\ UNCHANGED << config_vars, mda_vars, assembly_call, jac >>
       /\ _compute_jacobian =>
             LET call == Get(assembly_call')
                 off == lin_cache_tol_fact = 0 \/ tolerance[1] = 0
             IN  /\ off <=> (call.exec_cache_tol[1] = 0)
                 /\ off <=> call.execute
                 /\ call.in_data = RequestedPoint(local_data)
      ]_vars

C19_CacheToleranceOffByDefault == (lin_cache_tol_fact = 0) /\ C19_Steps

\* A second call of the total derivatives of a solver with a tolerance that
\* is not zero and the lin_cache_tol_fact of the construction: it was passed
\* a zero execution cache tolerance and execute=True, at the point of the
\* second run.
C19_Witness ==
    /\ dpc = "computed"
    /\ lin_cache_tol_fact = 0
    /\ tolerance = << 1, 2 >>
    /\ evals_used >= 2
    /\ ~IsNone(assembly_call)
    /\ Get(assembly_call).execute
    /\ Get(assembly_call).exec_cache_tol = << 0, 1 >>
    /\ Get(assembly_call).in_data = RequestedPoint(local_data)
    /\ Get(assembly_call).in_data[1] = 1

\* C20: with use_lu_fact, the factorization with which a total-derivative
\* computation solves is that of the Jacobian which this computation
\* assembles, whatever factorization was stored before; when the disciplines
\* are executed again, as they are by default, that Jacobian is the one at
\* the requested point.
C20_Outcome ==
    (dpc = "computed" /\ Get(assembly_call).use_lu_fact) =>
        /\ lu_used = Some(Get(jac).at)
        /\ lu_fact = lu_used
        /\ Get(assembly_call).reexecuted =>
               lu_used = Some(Get(assembly_call).in_data)

C20_Steps ==
    [][(_compute_jacobian /\ use_lu_fact) =>
          LET call == Get(assembly_call')
          IN  call.execute => lu_used' = Some(RequestedPoint(local_data))
      ]_vars

C21_CouplingsAdjoint ==
    (dpc = "computed") =>
        LET handed == Get(assembly_call).couplings_adjoint
            position(n) == IndexOf(NameOrder, n)
        IN  /\ { handed[k] : k \in 1..Len(handed) } =
                  { n \in mda_all_couplings :
                      \A r \in residual_variables : n # r[1] /\ n # r[2] }
            /\ \A i, j \in 1..Len(handed) :
                  i < j => position(handed[i]) < position(handed[j])
            /\ Get(jac).couplings = handed

\* The total derivatives of a solver of which a discipline declares the
\* coupling y2 as a residual variable with the coupling y1 associated: neither
\* is handed to the coupled solve.
C21_Witness ==
    /\ dpc = "computed"
    /\ residual_variables = {<< "y2", "y1" >>}
    /\ mda_all_couplings = {"y1", "y2"}
    /\ Get(assembly_call).couplings_adjoint = << >>
\* C22: after every residual computation the output 'MDA residuals norm' of
\* the solver is the current normed residual, and after a stored one it is
\* also the last entry of the residual history; the outputs for which the
\* solver is linearized never hold 'MDA residuals norm'.
C22_NotDifferentiated ==
    (dpc = "computed") =>
        /\ ~IsNone(Get(assembly_call).outputs)
        /\ RESIDUALS_NORM \notin Get(Get(assembly_call).outputs)

C22_Steps ==
    [][/\ (Iterate \/ Probe) =>
             local_data'[RESIDUALS_NORM] = Some(<< normed_residual' >>)
       /\ Iterate =>
             /\ residual_history' # << >>
             /\ residual_history'[Len(residual_history')] = normed_residual'
             /\ Get(local_data'[RESIDUALS_NORM])[1] =
                    residual_history'[Len(residual_history')]
       /\ mda_linearize =>
             /\ Get(assembly_call').outputs # Some({})
             /\ UNCHANGED << local_data, normed_residual, residual_history >>
      ]_vars

C22_ResidualNormOutput == []C22_NotDifferentiated /\ C22_Steps

\* After a second run whose residual is not that of the first, the solver
\* was linearized for outputs: its output 'MDA residuals norm' is its normed
\* residual and the last entry of its history, and is not differentiated.
C22_Witness ==
    /\ dpc = "computed"
    /\ Len(residual_history) = 2
    /\ residual_history[1] # residual_history[2]
    /\ local_data[RESIDUALS_NORM] = Some(<< residual_history[2] >>)
    /\ normed_residual = residual_history[2]
    /\ Get(assembly_call).outputs = Some({"y1", "y2"})
\* C23: on a solver over a chain of disciplines, whose vector of residuals is
\* empty, under every residual scaling the residual computed after the first
\* pass is zero and the run ends converged after that single pass, without
\* an exception.
C23_ChainConvergesInOnePass ==
    (coupling_structure.strong = {}) =>
        /\ status # "FAILED"
        /\ (pc = "check") => (normed_residual = << 0, 1 >> /\ _current_iter = 1)
        /\ (pc = "idle" /\ status # "NOT_STARTED") =>
              (status = "CONVERGED" /\ _current_iter = 1)
\* C24: an acceleration step always ends with a next iterate and the solver
\* goes on.  When the last two increments are equal the secant update is the
\* last output of the disciplines; when the matrix of the M2D minimization
\* is singular the minimization returns the zero combination and False, and
\* the next iterate is the last output of the disciplines.
C24_AccelerationNeverAborts ==
    (apc # "none") =>
        LET w == Get(window)
            d1 == VecSub(w.dxn_2, w.dxn_1)
            d2 == VecSub(w.dxn_1, w.dxn)
            singular == Dot(d1, d1) * Dot(d2, d2) = Dot(d1, d2) * Dot(d1, d2)
        IN  /\ apc \in {"iterating", "continued"}
            /\ (apc = "continued") =>
                  /\ ~IsNone(next_iterate)
                  /\ Get(next_iterate)[2] # 0
                  /\ (acceleration = "secant" /\ w.dxn = w.dxn_1) =>
                        next_iterate = Some(<< w.cgn, 1 >>)
                  /\ (acceleration = "m2d") =>
                        /\ Get(acc_result).ok <=> ~singular
                        /\ singular =>
                              /\ Get(acc_result).sol = << 0, 0 >>
                              /\ next_iterate = Some(<< w.cgn, 1 >>)

\* The minimization of test_m2d_acceleration_linalg_error: the last two
\* increments are zero, and the last output is not.
C24_Witness ==
    /\ apc = "continued"
    /\ acceleration = "m2d"
    /\ Get(window).dxn = << 1, 1 >>
    /\ Get(window).dxn_1 = << 0, 0 >>
    /\ Get(window).dxn_2 = << 0, 0 >>
    /\ Get(window).cgn = << 1, 0 >>
    /\ Get(acc_result) = [sol |-> << 0, 0 >>, den |-> 1, ok |-> FALSE]
    /\ next_iterate = Some(<< << 1, 0 >>, 1 >>)
C26_UniqueNumberedUid ==
    (folders_iter = "NUMBERED") =>
        /\ \A p, q \in Callers :
              (p # q /\ ~IsNone(returned[p]) /\ ~IsNone(returned[q]))
                  => returned[p] # returned[q]
        /\ \A k \in 1..Len(lock_order) :
              ~IsNone(returned[lock_order[k]]) =>
                  returned[lock_order[k]] = Some(str(n_dirs + k))
        /\ \A p \in Callers :
              ~IsNone(returned[p]) =>
                  \E k \in 1..Len(lock_order) : lock_order[k] = p
        /\ (\A p \in Callers : upc[p] \in {"idle", "done"}) =>
              _counter = n_dirs + Len(lock_order)

\* Every caller has returned, the last one to enter being the first caller:
\* with nine folders at the start it returned the identifier of two digits.
C26_Witness ==
    /\ folders_iter = "NUMBERED"
    /\ n_dirs = 9
    /\ \A p \in Callers : upc[p] = "done"
    /\ lock_order[Len(lock_order)] = 1
    /\ returned[1] = Some(str(9 + MaxCallers))
    /\ Len(Get(returned[1])) = 2
\* C27: at the start of every run the iteration counter is 0 and the stop
\* criterion is not satisfied by what a previous run left: a run that
\* follows a converged run does not find the criterion reached before its
\* first iteration.
C27_FreshStopCriterion ==
    (pc = "warm_start") =>
        (_current_iter = 0 /\ ~_stop_criterion_is_reached)
\* C28: a residual computation with store_it False leaves the history, the
\* run-start markers and the iteration counter as they are.
C28_StoreItFalseFrame ==
    [][Probe =>
        /\ residual_history' = residual_history
        /\ _starting_indices' = _starting_indices
        /\ _current_iter' = _current_iter]_vars

\* C28 (amended): a residual computation with store_it False never changes
\* the iteration counter; it leaves the history and the run-start markers as
\* they are, except that the first computation of a run with
\* reset_history_each_run empties both; besides, it only sets the normed
\* residual, the scaling reference when none was captured, and the
\* residual-norm output.
C28_StoreItFalseResetsOnly ==
    [][Probe =>
        /\ _current_iter' = _current_iter
        /\ IF _current_iter = 0 /\ reset_history_each_run
           THEN residual_history' = << >> /\ _starting_indices' = << >>
           ELSE /\ residual_history' = residual_history
                /\ _starting_indices' = _starting_indices
        /\ ~IsNone(_scaling_data) => _scaling_data' = _scaling_data
        /\ \A n \in Names \ {RESIDUALS_NORM} : local_data'[n] = local_data[n]
        /\ local_data'[RESIDUALS_NORM] \in
              {local_data[RESIDUALS_NORM], Some(<< normed_residual' >>)}
        /\ UNCHANGED << config_vars, cache_inputs, cache_outputs >>]_vars

\* In a run that follows a finished run, with reset_history_each_run, a
\* computation that is not stored has emptied the history before the first
\* iteration of the run.
C28_Witness ==
    /\ reset_history_each_run
    /\ pc = "evaluate"
    /\ _current_iter = 0
    /\ ~IsNone(cache_outputs[RESIDUALS_NORM])
    /\ ~IsNone(local_data[RESIDUALS_NORM])
    /\ residual_history = << >>
    /\ _starting_indices = << >>
\* C29: plot_residual_history succeeds for every n_iterations between 1 and
\* the length of the residual history, also after several runs: it draws the
\* first n_iterations residuals, in red at the run-start indices below
\* n_iterations and in black elsewhere.
C29_PlotSucceeds ==
    [][(plot_residual_history /\ ~IsNone(Get(figure').requested)
            /\ Get(Get(figure').requested) \in 1..Len(residual_history)) =>
        LET n == Get(Get(figure').requested)
        IN  /\ IsNone(Get(figure').exception)
            /\ Get(figure').residuals = SubSeq(residual_history, 1, n)
            /\ Len(Get(figure').colors) = n
            /\ \A i \in 1..n :
                  (Get(figure').colors[i] = "red") <=>
                      \E k \in 1..Len(_starting_indices) :
                          _starting_indices[k] = i - 1]_vars
\* C30: execute makes its calls in the order _check_algorithm, option
\* update, problem.check, _pre_run, _run, _post_run; it raises ValueError
\* before any of them when no algorithm name is known; and _post_run is given
\* the name that _pre_run was given, the effective name of the algorithm,
\* also when the name comes from the attribute algo_name.
C30_ExecuteOrderAndName ==
    /\ Len(calls) <= Len(ExecuteSteps)
    /\ \A k \in 1..Len(calls) : calls[k].step = ExecuteSteps[k]
    /\ (lpc = "idle" /\ n_executes > 0 /\ IsNone(algo_name)) =>
          (algo_exception = Some("ValueError") /\ calls = << >>)
    /\ \A k \in 1..Len(calls) :
          calls[k].step \in {"_pre_run", "_post_run"} =>
              (~IsNone(algo_name) /\ calls[k].algo_name = algo_name)
====
